---- MODULE Spec2Model ----
(***************************************************************************)
(* Model of the Rad testplate calculator: the Zemax prescription parser    *)
(* (ZemaxParser) and the optical formulas (Calculations).                  *)
(*                                                                         *)
(* JavaScript strings are sequences of one-character strings, so that      *)
(* split, trim, startsWith, the extractNumber regular expression,          *)
(* parseFloat and toFixed are computed character by character.             *)
(* The numbers of the parser are exact rationals [n |-> numerator, d |->   *)
(* denominator] in lowest terms with d > 0; NaN is the value with d = 0.   *)
(* The numbers of Calculations are IEEE 754 doubles (section Doubles), as  *)
(* its claims depend on the rounding of each operation.                    *)
(* A local constant of the source that is used more than once is a         *)
(* parameter of a helper operator (the operator XxxWith of Xxx).           *)
(***************************************************************************)
EXTENDS Integers, Sequences, FiniteSets, TLC

(***************************************************************************)
(* Numbers of the parser                                                   *)
(***************************************************************************)
RECURSIVE Gcd(_, _)
Gcd(a, b) == IF b = 0 THEN a ELSE Gcd(b, a % b)

IAbs(a) == IF a < 0 THEN -a ELSE a

RECURSIVE Pow10(_)
Pow10(k) == IF k = 0 THEN 1 ELSE 10 * Pow10(k - 1)

NaN == [n |-> 0, d |-> 0]

isNaN(x) == x.d = 0

\* a/b for b > 0 and g the greatest common divisor of a and b
Lowest(a, b, g) == [n |-> a \div g, d |-> b \div g]

\* the rational a/b in lowest terms with a positive denominator
R(a, b) ==
    IF b = 0 THEN NaN
    ELSE IF b < 0 THEN Lowest(-a, -b, Gcd(IAbs(a), IAbs(b)))
    ELSE Lowest(a, b, Gcd(IAbs(a), IAbs(b)))

Num(a) == [n |-> a, d |-> 1]

Zero == Num(0)

\* x * y, with the common factors g1 of x.n and y.d and g2 of y.n and x.d
\* removed before the products are formed
RMulWith(x, y, g1, g2) ==
    R((x.n \div g1) * (y.n \div g2), (x.d \div g2) * (y.d \div g1))

\* NaN times anything is NaN
RMul(x, y) ==
    IF isNaN(x) \/ isNaN(y) THEN NaN
    ELSE RMulWith(x, y, Gcd(IAbs(x.n), y.d), Gcd(IAbs(y.n), x.d))

\* x / y for y # 0
RDiv(x, y) == RMul(x, R(y.d, y.n))

MathAbs(x) == [n |-> IAbs(x.n), d |-> x.d]

RLt(x, y) == x.n * y.d < y.n * x.d

RGt(x, y) == RLt(y, x)

(***************************************************************************)
(* Strings                                                                 *)
(***************************************************************************)
Digits == <<"0", "1", "2", "3", "4", "5", "6", "7", "8", "9">>

IsDigit(c) == \E k \in 1..10 : Digits[k] = c

DigitVal(c) == (CHOOSE k \in 1..10 : Digits[k] = c) - 1

\* white space as String.prototype.trim and the regular expression \s see it
IsSpace(c) == c \in {" ", "\t", "\r", "\n"}

\* the character of s at position p (1-based), or "" beyond the end
At(s, p) == IF p >= 1 /\ p <= Len(s) THEN s[p] ELSE ""

\* the least position from p on where s has the character sep, or Len(s) + 1
RECURSIVE IndexOfFrom(_, _, _)
IndexOfFrom(s, sep, p) ==
    IF p > Len(s) \/ s[p] = sep THEN p ELSE IndexOfFrom(s, sep, p + 1)

SubString(s, a, b) == IF a > b THEN <<>> ELSE SubSeq(s, a, b)

\* s.split(sep) for a one-character separator: the pieces from position
\* start on, the first of which ends before position e
RECURSIVE SplitFrom(_, _, _)
SplitPiece(s, sep, start, e) ==
    IF e > Len(s) THEN <<SubString(s, start, Len(s))>>
    ELSE <<SubString(s, start, e - 1)>> \o SplitFrom(s, sep, e + 1)

SplitFrom(s, sep, start) == SplitPiece(s, sep, start, IndexOfFrom(s, sep, start))

Split(s, sep) == SplitFrom(s, sep, 1)

RECURSIVE SkipWs(_, _)
SkipWs(s, p) == IF p <= Len(s) /\ IsSpace(s[p]) THEN SkipWs(s, p + 1) ELSE p

RECURSIVE SkipWsBack(_, _)
SkipWsBack(s, p) == IF p >= 1 /\ IsSpace(s[p]) THEN SkipWsBack(s, p - 1) ELSE p

\* s.trim()
Trim(s) == SubString(s, SkipWs(s, 1), SkipWsBack(s, Len(s)))

\* s.startsWith(p)
StartsWith(s, p) == Len(s) >= Len(p) /\ SubSeq(s, 1, Len(p)) = p

\* the least position from p on where s has white space, or Len(s) + 1
RECURSIVE SkipNonWs(_, _)
SkipNonWs(s, p) ==
    IF p > Len(s) \/ IsSpace(s[p]) THEN p ELSE SkipNonWs(s, p + 1)

\* s.split(/\s+/): the separators are the maximal runs of white space
RECURSIVE SplitWsFrom(_, _)
SplitWsPiece(s, start, e) ==
    IF e > Len(s) THEN <<SubString(s, start, Len(s))>>
    ELSE <<SubString(s, start, e - 1)>> \o SplitWsFrom(s, SkipWs(s, e))

SplitWsFrom(s, start) == SplitWsPiece(s, start, SkipNonWs(s, start))

SplitWs(s) == SplitWsFrom(s, 1)

\* s.includes(p)
Includes(s, p) ==
    \E k \in 1..(Len(s) - Len(p) + 1) : SubSeq(s, k, k + Len(p) - 1) = p

\* the number of consecutive decimal digits of s from position p on
RECURSIVE DigitRun(_, _)
DigitRun(s, p) == IF IsDigit(At(s, p)) THEN 1 + DigitRun(s, p + 1) ELSE 0

\* the value of the k decimal digits of s from position p on
RECURSIVE DigitsVal(_, _, _)
DigitsVal(s, p, k) ==
    IF k = 0 THEN 0 ELSE DigitsVal(s, p, k - 1) * 10 + DigitVal(s[p + k - 1])

\* the position after an optional sign at position p
AfterSign(s, p) == IF At(s, p) \in {"+", "-"} THEN p + 1 ELSE p

\* an exponent part [eE][-+]?[0-9]+ at position m, whose digits would start
\* at position t: its end (exclusive), or m when there is none
ExponentEndWith(s, m, t) ==
    IF At(s, m) \in {"e", "E"} /\ DigitRun(s, t) >= 1 THEN t + DigitRun(s, t)
    ELSE m

ExponentEnd(s, m) == ExponentEndWith(s, m, AfterSign(s, m + 1))

\* the signed value of the exponent part of s at position m, 0 when none
ExponentValWith(s, m, t) ==
    IF At(s, m) \in {"e", "E"} /\ DigitRun(s, t) >= 1
    THEN (IF At(s, m + 1) = "-" THEN -1 ELSE 1) * DigitsVal(s, t, DigitRun(s, t))
    ELSE 0

ExponentVal(s, m) == ExponentValWith(s, m, AfterSign(s, m + 1))

\* mant / 10^f * 10^e
Scaled(mant, f, e) ==
    IF e >= 0 THEN R(mant * Pow10(e), Pow10(f)) ELSE R(mant, Pow10(f) * Pow10(-e))

\* parseFloat of a literal whose sign is sign, with k integer digits from
\* position q on and, if k = 0 or a point follows them, f fraction digits
ParseFloatWith(s, sign, q, k, f) ==
    IF k = 0 /\ f = 0 THEN NaN
    ELSE Scaled(sign * (DigitsVal(s, q, k) * Pow10(f) + DigitsVal(s, q + k + 1, f)),
                f,
                ExponentVal(s, IF At(s, q + k) = "." THEN q + k + 1 + f ELSE q + k))

ParseFloatDigits(s, sign, q, k) ==
    ParseFloatWith(s, sign, q, k,
                   IF At(s, q + k) = "." THEN DigitRun(s, q + k + 1) ELSE 0)

ParseFloatAt(s, p) ==
    ParseFloatDigits(s, IF At(s, p) = "-" THEN -1 ELSE 1, AfterSign(s, p),
                     DigitRun(s, AfterSign(s, p)))

\* parseFloat(s): the longest prefix of s, after leading white space, that
\* is a decimal literal  [+-]? (digits [. digits*]? | . digits) exponent?
\* (the literal "Infinity" is outside the alphabet of the model)
parseFloat(s) == ParseFloatAt(s, SkipWs(s, 1))

\* the match of [0-9]*\.?[0-9]+([eE][-+]?[0-9]+)? at position q, where k
\* digits start
MatchDigits(s, q, k) ==
    IF At(s, q + k) = "." /\ IsDigit(At(s, q + k + 1))
    THEN ExponentEnd(s, q + k + 1 + DigitRun(s, q + k + 1))
    ELSE IF k >= 1 THEN ExponentEnd(s, q + k)
    ELSE 0

\* the end (exclusive) of the match of
\*   /[-+]?[0-9]*\.?[0-9]+([eE][-+]?[0-9]+)?/
\* anchored at position p of s, or 0 when the expression does not match there
MatchNumberAt(s, p) == MatchDigits(s, AfterSign(s, p), DigitRun(s, AfterSign(s, p)))

RECURSIVE IntToChars(_)
IntToChars(v) ==
    IF v < 10 THEN <<Digits[v + 1]>>
    ELSE Append(IntToChars(v \div 10), Digits[(v % 10) + 1])

\* the decimal numeral of scaled / 10000 with four decimals
FixedChars(scaled) ==
    IntToChars(scaled \div 10000) \o <<".">> \o
    <<Digits[((scaled \div 1000) % 10) + 1], Digits[((scaled \div 100) % 10) + 1],
      Digits[((scaled \div 10) % 10) + 1], Digits[(scaled % 10) + 1]>>

\* number.toFixed(4) for a number x >= 0
toFixed4(x) == FixedChars((2 * x.n * 10000 + x.d) \div (2 * x.d))

(***************************************************************************)
(* ZemaxParser                                                             *)
(***************************************************************************)
\* JavaScript null where a string is expected: no string of characters
null == <<"null">>

\* JavaScript null where a number is expected
nullNumber == [n |-> 0, d |-> -1]

\* the truthiness of a string-or-null value
Truthy(v) == v # null /\ v # <<>>

\* the least position of line where the extractNumber expression matches,
\* or 0 when it matches nowhere
RECURSIVE FirstMatchFrom(_, _)
FirstMatchFrom(line, p) ==
    IF p > Len(line) THEN 0
    ELSE IF MatchNumberAt(line, p) # 0 THEN p
    ELSE FirstMatchFrom(line, p + 1)

NumberOrNull(num) == IF isNaN(num) THEN nullNumber ELSE num

\* extractNumber when the expression first matches at position p
ExtractNumberAt(line, p) ==
    IF p # 0
    THEN NumberOrNull(parseFloat(SubSeq(line, p, MatchNumberAt(line, p) - 1)))
    ELSE nullNumber

extractNumber(line) == ExtractNumberAt(line, FirstMatchFrom(line, 1))

BLANK == <<"_", "_", "_", "B", "L", "A", "N", "K">>

\* materialName.match(/^_+$/)
OnlyUnderscores(t) == Len(t) >= 1 /\ \A k \in 1..Len(t) : t[k] = "_"

\* IndexLabel with the test index >= 1.0 for index > 1.0
IndexLabel_AtLeastOne(index) ==
    IF ~isNaN(index) /\ ~RLt(index, Num(1))
    THEN <<"n", "=">> \o toFixed4(index)
    ELSE null

\* lines 137-140: the label of a refractive index
IndexLabel(index) ==
    IF ~isNaN(index) /\ RGt(index, Num(1))
    THEN <<"n", "=">> \o toFixed4(index)
    ELSE null

\* lines 128-143
MaterialOf(parts, materialName) ==
    IF materialName # <<>> /\ materialName # BLANK /\ ~OnlyUnderscores(materialName)
    THEN materialName
    ELSE IF materialName = BLANK /\ Len(parts) >= 5
    THEN IndexLabel(parseFloat(parts[5]))
    ELSE null

ExtractMaterialFrom(parts) ==
    IF Len(parts) < 2 THEN null ELSE MaterialOf(parts, parts[2])

extractMaterial(line) == ExtractMaterialFrom(SplitWs(line))

\* isValidSurface with the test of the diameter only
isValidSurface_DiameterOnly(surface) ==
    RGt(surface.diameter, Zero)

isValidSurface(surface) ==
    surface.radius # Zero /\ RGt(surface.diameter, Zero)

\* determineSurfaceType with the material ignored
determineSurfaceType_IgnoresMaterial(radius, material) ==
    IF RGt(radius, Zero) THEN "Convex" ELSE "Concave"

determineSurfaceType(radius, material) ==
    IF Truthy(material)
    THEN (IF RGt(radius, Zero) THEN "Convex" ELSE "Concave")
    ELSE (IF RGt(radius, Zero) THEN "Concave" ELSE "Convex")

\* formatSurface with the radius copied with its sign
formatSurface_Signed(surface) ==
    [type       |-> determineSurfaceType(surface.radius, surface.material),
     diameter   |-> MathAbs(surface.diameter),
     rTestplate |-> surface.radius,
     material   |-> IF Truthy(surface.material) THEN surface.material ELSE <<>>,
     fringes    |-> <<>>]

formatSurface(surface) ==
    [type       |-> determineSurfaceType(surface.radius, surface.material),
     diameter   |-> MathAbs(surface.diameter),
     rTestplate |-> MathAbs(surface.radius),
     material   |-> IF Truthy(surface.material) THEN surface.material ELSE <<>>,
     fringes    |-> <<>>]

\* the markers parseZmxFormat looks for at the start of a trimmed line
SURF_ == <<"S", "U", "R", "F", " ">>

CURV_ == <<"C", "U", "R", "V", " ">>

DIAM_ == <<"D", "I", "A", "M", " ">>

GLAS_ == <<"G", "L", "A", "S", " ">>

\* the position test of lines 62 and 107: neither SURF 0 nor the last SURF
\* NotEndpoint with the last block let through
NotEndpoint_LastIncluded(number, totalSurfaces) ==
    number > 0 /\ number <= totalSurfaces - 1

NotEndpoint(number, totalSurfaces) ==
    number > 0 /\ number < totalSurfaces - 1

\* lines 60-65 and 106-110: the surfaces after the accumulator cur (<<>> for
\* null, or <<surface>>) has been saved if valid
Flush(cur, surfaces, totalSurfaces) ==
    IF cur # <<>> /\ isValidSurface(cur[1])
       /\ NotEndpoint(cur[1].number, totalSurfaces)
    THEN Append(surfaces, formatSurface(cur[1]))
    ELSE surfaces

\* CountSurfaces over the lines as they are, without trim
RECURSIVE CountSurfaces_Untrimmed(_)
CountSurfaces_Untrimmed(lines) ==
    IF lines = <<>> THEN 0
    ELSE (IF StartsWith(Head(lines), SURF_) THEN 1 ELSE 0)
         + CountSurfaces_Untrimmed(Tail(lines))

\* lines 46-51, the first pass: the number of surface boundary lines
RECURSIVE CountSurfaces(_)
CountSurfaces(lines) ==
    IF lines = <<>> THEN 0
    ELSE (IF StartsWith(Trim(Head(lines)), SURF_) THEN 1 ELSE 0)
         + CountSurfaces(Tail(lines))

\* lines 67-74: the accumulator of a new surface
NewSurface(surfaceNumber) ==
    [number |-> surfaceNumber, radius |-> Zero, curvature |-> Zero,
     diameter |-> Zero, material |-> null]

\* lines 80-85
SetCurvature(cur, curvature) ==
    IF curvature # nullNumber
    THEN <<[cur[1] EXCEPT !.curvature = curvature,
                          !.radius = IF curvature # Zero
                                     THEN RDiv(Num(1), curvature)
                                     ELSE @]>>
    ELSE cur

\* lines 78-86: a CURV line
ApplyCurv(cur, line) ==
    IF cur # <<>> /\ StartsWith(line, CURV_)
    THEN SetCurvature(cur, extractNumber(line))
    ELSE cur

\* SetDiameter without the test of the sign
SetDiameter_AnySign(cur, semiDiameter) ==
    IF semiDiameter # nullNumber
    THEN <<[cur[1] EXCEPT !.diameter = RMul(semiDiameter, Num(2))]>>
    ELSE cur

\* lines 91-93
SetDiameter(cur, semiDiameter) ==
    IF semiDiameter # nullNumber /\ RGt(semiDiameter, Zero)
    THEN <<[cur[1] EXCEPT !.diameter = RMul(semiDiameter, Num(2))]>>
    ELSE cur

\* lines 89-94: a DIAM line
ApplyDiam(cur, line) ==
    IF cur # <<>> /\ StartsWith(line, DIAM_)
    THEN SetDiameter(cur, extractNumber(line))
    ELSE cur

\* lines 99-101
SetMaterial(cur, material) ==
    IF Truthy(material) THEN <<[cur[1] EXCEPT !.material = material]>> ELSE cur

\* lines 97-102: a GLAS line
ApplyGlas(cur, line) ==
    IF cur # <<>> /\ StartsWith(line, GLAS_)
    THEN SetMaterial(cur, extractMaterial(line))
    ELSE cur

\* lines 77-102: the field lines
ApplyFields(cur, line) == ApplyGlas(ApplyDiam(ApplyCurv(cur, line), line), line)

\* ZmxTrimmed with the index of a block read from its SURF line
ZmxTrimmed_WrittenNumber(st, line, totalSurfaces) ==
    IF StartsWith(line, SURF_)
    THEN [currentSurface |-> ApplyFields(<<NewSurface(extractNumber(line).n)>>, line),
          surfaceNumber  |-> extractNumber(line).n,
          surfaces       |-> Flush(st.currentSurface, st.surfaces, totalSurfaces)]
    ELSE [st EXCEPT !.currentSurface = ApplyFields(st.currentSurface, line)]

\* lines 57-102 for the trimmed line
ZmxTrimmed(st, line, totalSurfaces) ==
    IF StartsWith(line, SURF_)
    THEN [currentSurface |-> ApplyFields(<<NewSurface(st.surfaceNumber + 1)>>, line),
          surfaceNumber  |-> st.surfaceNumber + 1,
          surfaces       |-> Flush(st.currentSurface, st.surfaces, totalSurfaces)]
    ELSE [st EXCEPT !.currentSurface = ApplyFields(st.currentSurface, line)]

\* lines 54-103: one iteration of the second pass over the scan state
\* st = [currentSurface, surfaceNumber, surfaces]
ZmxLine(st, rawLine, totalSurfaces) == ZmxTrimmed(st, Trim(rawLine), totalSurfaces)

RECURSIVE ZmxScan(_, _, _, _)
ZmxScan(st, lines, i, totalSurfaces) ==
    IF i > Len(lines) THEN st
    ELSE ZmxScan(ZmxLine(st, lines[i], totalSurfaces), lines, i + 1, totalSurfaces)

ZmxStart == [currentSurface |-> <<>>, surfaceNumber |-> -1, surfaces |-> <<>>]

\* lines 105-112: the last flush
ZmxFinish(st, totalSurfaces) == Flush(st.currentSurface, st.surfaces, totalSurfaces)

ParseZmxTotal(lines, totalSurfaces) ==
    ZmxFinish(ZmxScan(ZmxStart, lines, 1, totalSurfaces), totalSurfaces)

ParseZmxLines(lines) == ParseZmxTotal(lines, CountSurfaces(lines))

parseZmxFormat(content) == ParseZmxLines(Split(content, "\n"))

\* lines 171-179
\* TextRecord with the type taken from the material-present row
TextRecord_Glass(radius, diameter) ==
    IF ~isNaN(radius) /\ ~isNaN(diameter) /\ radius # Zero /\ RGt(diameter, Zero)
    THEN <<[type       |-> IF RGt(radius, Zero) THEN "Convex" ELSE "Concave",
            diameter   |-> diameter,
            rTestplate |-> MathAbs(radius),
            material   |-> null,
            fringes    |-> <<>>]>>
    ELSE <<>>

TextRecord(radius, diameter) ==
    IF ~isNaN(radius) /\ ~isNaN(diameter) /\ radius # Zero /\ RGt(diameter, Zero)
    THEN <<[type       |-> determineSurfaceType(radius, null),
            diameter   |-> diameter,
            rTestplate |-> MathAbs(radius),
            material   |-> null,
            fringes    |-> <<>>]>>
    ELSE <<>>

\* lines 166-180
TextParts(parts) ==
    IF Len(parts) >= 3
    THEN TextRecord(parseFloat(parts[2]), parseFloat(parts[3]))
    ELSE <<>>

\* lines 160-180
TextTrimmed(trimmed) ==
    IF trimmed = <<>> \/ StartsWith(trimmed, <<"#">>)
       \/ StartsWith(trimmed, <<"/", "/">>)
    THEN <<>>
    ELSE TextParts(SplitWs(trimmed))

\* lines 157-181: the records one line of a text file contributes
TextLine(line) == TextTrimmed(Trim(line))

\* TextScan giving up at the first line that contributes no record
RECURSIVE TextScan_Abort(_, _)
TextScan_Abort(lines, i) ==
    IF i > Len(lines) \/ TextLine(lines[i]) = <<>> THEN <<>>
    ELSE TextLine(lines[i]) \o TextScan_Abort(lines, i + 1)

RECURSIVE TextScan(_, _)
TextScan(lines, i) ==
    IF i > Len(lines) THEN <<>>
    ELSE TextLine(lines[i]) \o TextScan(lines, i + 1)

parseTextFormat(content) == TextScan(Split(content, "\n"), 1)

\* lines 274-280
CsvRecord(radius, diameter) ==
    IF ~isNaN(radius) /\ ~isNaN(diameter) /\ radius # Zero /\ RGt(diameter, Zero)
    THEN <<formatSurface([radius |-> radius, diameter |-> diameter,
                          material |-> null])>>
    ELSE <<>>

\* lines 269-281
CsvParts(parts) ==
    IF Len(parts) >= 2
    THEN CsvRecord(parseFloat(parts[1]), parseFloat(parts[2]))
    ELSE <<>>

CsvTrimmed(line) == IF line = <<>> THEN <<>> ELSE CsvParts(Split(line, ","))

\* lines 266-281: the records one line of a CSV file contributes
CsvLine(rawLine) == CsvTrimmed(Trim(rawLine))

RECURSIVE CsvScan(_, _)
CsvScan(lines, i) ==
    IF i > Len(lines) THEN <<>>
    ELSE CsvLine(lines[i]) \o CsvScan(lines, i + 1)

\* parseCSV with the loop starting at index 0
parseCSV_WithHeader(content) == CsvScan(Split(content, "\n"), 1)

\* the loop starts at index 1: the header line is skipped
parseCSV(content) == CsvScan(Split(content, "\n"), 2)

\* detectFormat with the test of the comma first
detectFormat_CommaFirst(content) ==
    IF Includes(content, <<",">>) THEN "csv"
    ELSE IF Includes(content, <<"S", "U", "R", "F">>)
            /\ (Includes(content, <<"C", "U", "R", "V">>)
                \/ Includes(content, <<"R", "A", "D", "I", "U", "S">>))
    THEN "zmx"
    ELSE "text"

\* detectFormat taking only 'RADIUS' for the sign of a Zemax file
detectFormat_RadiusOnly(content) ==
    IF Includes(content, <<"S", "U", "R", "F">>)
       /\ Includes(content, <<"R", "A", "D", "I", "U", "S">>)
    THEN "zmx"
    ELSE IF Includes(content, <<",">>) THEN "csv"
    ELSE "text"

detectFormat(content) ==
    IF Includes(content, <<"S", "U", "R", "F">>)
       /\ (Includes(content, <<"C", "U", "R", "V">>)
           \/ Includes(content, <<"R", "A", "D", "I", "U", "S">>))
    THEN "zmx"
    ELSE IF Includes(content, <<",">>) THEN "csv"
    ELSE "text"

\* lines 21-26
TextOrEmpty(txtSurfaces) == IF Len(txtSurfaces) > 0 THEN txtSurfaces ELSE <<>>

\* ParseWith with parseCSV tried as a last strategy
ParseWith_CsvFallback(content, zmxSurfaces) ==
    IF Len(zmxSurfaces) > 0 THEN zmxSurfaces
    ELSE IF Len(parseTextFormat(content)) > 0 THEN parseTextFormat(content)
    ELSE parseCSV(content)

\* lines 17-26
ParseWith(content, zmxSurfaces) ==
    IF Len(zmxSurfaces) > 0 THEN zmxSurfaces
    ELSE TextOrEmpty(parseTextFormat(content))

parse(content) == ParseWith(content, parseZmxFormat(content))

(***************************************************************************)
(* Doubles                                                                 *)
(***************************************************************************)
\* The numbers of Calculations are IEEE 754 doubles: every operation gives
\* the exact result rounded to the nearest double, ties to even.  A finite
\* nonzero double is s * (hi * 2^27 + lo) * 2^e with s the sign, a 53-bit
\* significand (2^25 <= hi < 2^26, 0 <= lo < 2^27) and e the exponent, which
\* is not bounded here: overflow to Infinity and underflow are not modelled.
\* There is one zero.
RECURSIVE Pow2(_)
Pow2(k) == IF k = 0 THEN 1 ELSE 2 * Pow2(k - 1)

Limb == Pow2(27)

HalfLimb == Pow2(26)

DZero == [s |-> 0, hi |-> 0, lo |-> 0, e |-> 0]

DNaN == [s |-> 2, hi |-> 0, lo |-> 0, e |-> 0]

DIsNaN(x) == x.s = 2

\* exact intermediate results: naturals below 2^108 as four limbs of 27
\* bits, the most significant first
WZero == <<0, 0, 0, 0>>

WCarry2(l3, l2, l1, l0) == <<l3 + (l2 \div Limb), l2 % Limb, l1, l0>>

WCarry1(l3, l2, l1, l0) == WCarry2(l3, l2 + (l1 \div Limb), l1 % Limb, l0)

\* the limbs with the carries (or borrows) moved up
WCarry(l3, l2, l1, l0) == WCarry1(l3, l2, l1 + (l0 \div Limb), l0 % Limb)

WAdd(x, y) == WCarry(x[1] + y[1], x[2] + y[2], x[3] + y[3], x[4] + y[4])

\* x - y for x >= y
WSub(x, y) == WCarry(x[1] - y[1], x[2] - y[2], x[3] - y[3], x[4] - y[4])

WDouble(x) == WCarry(2 * x[1], 2 * x[2], 2 * x[3], 2 * x[4])

WInc(x) == WCarry(x[1], x[2], x[3], x[4] + 1)

WDec(x) == WCarry(x[1], x[2], x[3], x[4] - 1)

WHalf(x) ==
    <<x[1] \div 2,
      (x[1] % 2) * HalfLimb + (x[2] \div 2),
      (x[2] % 2) * HalfLimb + (x[3] \div 2),
      (x[3] % 2) * HalfLimb + (x[4] \div 2)>>

WOdd(x) == x[4] % 2 = 1

WLt(x, y) ==
    \/ x[1] < y[1]
    \/ x[1] = y[1] /\ x[2] < y[2]
    \/ x[1] = y[1] /\ x[2] = y[2] /\ x[3] < y[3]
    \/ x[1] = y[1] /\ x[2] = y[2] /\ x[3] = y[3] /\ x[4] < y[4]

\* x shifted right by k < 27 bits, p = 2^k
WShrBits(x, p) ==
    <<x[1] \div p,
      (x[1] % p) * (Limb \div p) + (x[2] \div p),
      (x[2] % p) * (Limb \div p) + (x[3] \div p),
      (x[3] % p) * (Limb \div p) + (x[4] \div p)>>

\* <<x shifted right by k bits, whether a nonzero bit was shifted out>>
RECURSIVE WShr(_, _, _)
WShr(x, k, sticky) ==
    IF k >= 108 THEN <<WZero, sticky \/ x # WZero>>
    ELSE IF k >= 27
    THEN WShr(<<0, x[1], x[2], x[3]>>, k - 27, sticky \/ x[4] # 0)
    ELSE <<WShrBits(x, Pow2(k)), sticky \/ x[4] % Pow2(k) # 0>>

\* x shifted left by k < 27 bits, q = 2^(27-k); no bit is lost
WShlBits(x, q) ==
    <<(x[1] % q) * (Limb \div q) + (x[2] \div q),
      (x[2] % q) * (Limb \div q) + (x[3] \div q),
      (x[3] % q) * (Limb \div q) + (x[4] \div q),
      (x[4] % q) * (Limb \div q)>>

RECURSIVE WShl(_, _)
WShl(x, k) ==
    IF k >= 27 THEN WShl(<<x[2], x[3], x[4], 0>>, k - 27)
    ELSE WShlBits(x, Pow2(27 - k))

\* the number of bits of a limb
RECURSIVE BitLen(_)
BitLen(a) == IF a = 0 THEN 0 ELSE 1 + BitLen(a \div 2)

WBitLen(x) ==
    IF x[1] > 0 THEN 81 + BitLen(x[1])
    ELSE IF x[2] > 0 THEN 54 + BitLen(x[2])
    ELSE IF x[3] > 0 THEN 27 + BitLen(x[3])
    ELSE BitLen(x[4])

\* the double of sign s and 53-bit significand m (or 2^53)
Pack(s, m, e) ==
    IF m[3] >= HalfLimb
    THEN [s |-> s, hi |-> HalfLimb \div 2, lo |-> 0, e |-> e + 1]
    ELSE [s |-> s, hi |-> m[3], lo |-> m[4], e |-> e]

RoundUp(s, m, e, up) == IF up THEN Pack(s, WInc(m), e) ELSE Pack(s, m, e)

\* w has 54 bits: the significand and the bit after it
Round54(s, w, e, sticky) ==
    RoundUp(s, WHalf(w), e + 1, WOdd(w) /\ (sticky \/ WOdd(WHalf(w))))

RoundCut(s, cut, e) == Round54(s, cut[1], e, cut[2])

RoundLen(s, w, e, sticky, len) ==
    IF len > 54 THEN RoundCut(s, WShr(w, len - 54, sticky), e + (len - 54))
    ELSE Round54(s, WShl(w, 54 - len), e - (54 - len), sticky)

\* round to nearest, ties to even: the double nearest to s * (w + f) * 2^e,
\* with 0 < f < 1 if sticky and f = 0 otherwise (w >= 2^53 if sticky)
RoundW(s, w, e, sticky) ==
    IF w = WZero THEN DZero ELSE RoundLen(s, w, e, sticky, WBitLen(w))

Signum(k) == IF k < 0 THEN -1 ELSE IF k > 0 THEN 1 ELSE 0

\* the double of an integer
FromInt(k) ==
    RoundW(Signum(k), <<0, 0, (k * Signum(k)) \div Limb, (k * Signum(k)) % Limb>>,
           0, FALSE)

Mant(x) == <<0, 0, x.hi, x.lo>>

DNeg(x) == IF DIsNaN(x) THEN x ELSE [x EXCEPT !.s = -x.s]

DAbs(x) == IF DIsNaN(x) THEN x ELSE [x EXCEPT !.s = x.s * x.s]

\* |x| < |y| for finite nonzero x and y
MagLt(x, y) ==
    \/ x.e < y.e
    \/ x.e = y.e /\ x.hi < y.hi
    \/ x.e = y.e /\ x.hi = y.hi /\ x.lo < y.lo

\* x < y; false when one is NaN
DLt(x, y) ==
    /\ ~DIsNaN(x) /\ ~DIsNaN(y)
    /\ \/ x.s < y.s
       \/ x.s = 1 /\ y.s = 1 /\ MagLt(x, y)
       \/ x.s = -1 /\ y.s = -1 /\ MagLt(y, x)

DGt(x, y) == DLt(y, x)

DLe(x, y) == ~DIsNaN(x) /\ ~DIsNaN(y) /\ ~DLt(y, x)

DGe(x, y) == DLe(y, x)

\* the two limbs of the product of two limbs, the low one before its carry
Piece == Pow2(14)

Cross(a, b) == (a \div Piece) * (b % Piece) + (a % Piece) * (b \div Piece)

MulHi(a, b) == 2 * ((a \div Piece) * (b \div Piece)) + (Cross(a, b) \div (Piece \div 2))

MulLo(a, b) == (Cross(a, b) % (Piece \div 2)) * Piece + (a % Piece) * (b % Piece)

Product(ah, al, bh, bl) ==
    WCarry(MulHi(ah, bh),
           MulLo(ah, bh) + MulHi(ah, bl) + MulHi(al, bh),
           MulLo(ah, bl) + MulLo(al, bh) + MulHi(al, bl),
           MulLo(al, bl))

\* x * y
DMul(x, y) ==
    IF DIsNaN(x) \/ DIsNaN(y) THEN DNaN
    ELSE IF x.s = 0 \/ y.s = 0 THEN DZero
    ELSE RoundW(x.s * y.s, Product(x.hi, x.lo, y.hi, y.lo), x.e + y.e, FALSE)

\* long division, one bit: <<remainder, quotient>> of r by d
DivBit(r, d, q) ==
    IF WLt(r, d) THEN <<r, q>> ELSE <<WSub(r, d), WInc(q)>>

Div1(st, d) == DivBit(WDouble(st[1]), d, WDouble(st[2]))

\* An operator's arguments are evaluated when its body first uses them: a
\* loop of 54 steps written as 54 nested applications would be evaluated
\* 54 levels deep.  Each group of steps therefore evaluates its starting
\* state (Known) before it descends, which keeps the depth logarithmic.
Known(st) == st = st

Div3(st, d) == IF Known(st) THEN Div1(Div1(Div1(st, d), d), d) ELSE st

Div9(st, d) == IF Known(st) THEN Div3(Div3(Div3(st, d), d), d) ELSE st

Div27(st, d) == IF Known(st) THEN Div9(Div9(Div9(st, d), d), d) ELSE st

\* 54 more bits of the quotient
Div54(st, d) == IF Known(st) THEN Div27(Div27(st, d), d) ELSE st

DivRound(s, e, st) == RoundW(s, st[2], e, st[1] # WZero)

\* x / y; y = 0 is not reached (the code tests it before it divides)
DDiv(x, y) ==
    IF DIsNaN(x) \/ DIsNaN(y) \/ y.s = 0 THEN DNaN
    ELSE IF x.s = 0 THEN DZero
    ELSE DivRound(x.s * y.s, x.e - y.e - 54,
                  Div54(DivBit(Mant(x), Mant(y), WZero), Mant(y)))

\* the aligned sum: xw and yw in units of 2^e, xw >= yw unless both
\* exponents are equal; sticky if yw was cut
AddAligned(xs, ys, xw, yw, e, sticky) ==
    IF xs = ys THEN RoundW(xs, WAdd(xw, yw), e, sticky)
    ELSE IF xw = yw THEN DZero
    ELSE IF WLt(xw, yw) THEN RoundW(ys, WSub(yw, xw), e, FALSE)
    ELSE IF sticky THEN RoundW(xs, WDec(WSub(xw, yw)), e, TRUE)
    ELSE RoundW(xs, WSub(xw, yw), e, FALSE)

AddShifted(x, y, shifted) ==
    AddAligned(x.s, y.s, WDouble(<<x.hi, x.lo, 0, 0>>), shifted[1], x.e - 55,
               shifted[2])

\* x + y for finite nonzero x and y with x.e >= y.e
AddOrdered(x, y) ==
    AddShifted(x, y, WShr(WDouble(<<y.hi, y.lo, 0, 0>>), x.e - y.e, FALSE))

\* x + y
DAdd(x, y) ==
    IF DIsNaN(x) \/ DIsNaN(y) THEN DNaN
    ELSE IF x.s = 0 THEN y
    ELSE IF y.s = 0 THEN x
    ELSE IF x.e >= y.e THEN AddOrdered(x, y)
    ELSE AddOrdered(y, x)

DSub(x, y) == DAdd(x, DNeg(y))

WQuadPlus(x, a) == WCarry(4 * x[1], 4 * x[2], 4 * x[3], 4 * x[4] + a)

\* the root, bit by bit: n holds the bits of the radicand not yet used, two
\* at a time from bits 53 and 52 down, rem is the remainder and res the
\* root so far
SqrtBit(n, rem, res) ==
    IF WLt(rem, WQuadPlus(res, 1)) THEN <<n, rem, WDouble(res)>>
    ELSE <<n, WSub(rem, WQuadPlus(res, 1)), WInc(WDouble(res))>>

Sqrt1(st) ==
    SqrtBit(WQuadPlus(<<0, 0, st[1][3] % (HalfLimb \div 2), st[1][4]>>, 0),
            WQuadPlus(st[2], st[1][3] \div (HalfLimb \div 2)), st[3])

Sqrt3(st) == IF Known(st) THEN Sqrt1(Sqrt1(Sqrt1(st))) ELSE st

Sqrt9(st) == IF Known(st) THEN Sqrt3(Sqrt3(Sqrt3(st))) ELSE st

Sqrt27(st) == IF Known(st) THEN Sqrt9(Sqrt9(Sqrt9(st))) ELSE st

\* the 54 bits of the root of n * 2^54
Sqrt54(n) == IF Known(n) THEN Sqrt27(Sqrt27(<<n, WZero, WZero>>)) ELSE WZero

SqrtRound(e, st) == RoundW(1, st[3], e, st[2] # WZero)

\* Math.sqrt(x): the radicand is the significand, doubled if the exponent
\* is odd
DSqrt(x) ==
    IF DIsNaN(x) \/ x.s < 0 THEN DNaN
    ELSE IF x.s = 0 THEN DZero
    ELSE IF x.e % 2 = 0
    THEN SqrtRound((x.e \div 2) - 27, Sqrt54(Mant(x)))
    ELSE SqrtRound(((x.e - 1) \div 2) - 27, Sqrt54(WDouble(Mant(x))))

(***************************************************************************)
(* Calculations                                                            *)
(***************************************************************************)
Two == FromInt(2)

\* TestplateSagWith without the test lines 22-24
TestplateSagWith_NoGuard(radius, r2, d2) ==
    DSub(DAbs(radius), DSqrt(DSub(r2, d2)))

\* TestplateSagWith with radius for Math.abs(radius)
TestplateSagWith_Signed(radius, r2, d2) ==
    IF DLt(r2, d2) THEN DZero
    ELSE DSub(radius, DSqrt(DSub(r2, d2)))

\* lines 22-26
TestplateSagWith(radius, r2, d2) ==
    IF DLt(r2, d2) THEN DZero
    ELSE DSub(DAbs(radius), DSqrt(DSub(r2, d2)))

calculateTestplateSag(radius, diameter) ==
    IF radius = DZero \/ diameter = DZero THEN DZero
    ELSE TestplateSagWith(radius, DMul(radius, radius),
                          DMul(DDiv(diameter, Two), DDiv(diameter, Two)))

\* calculateFringeSag of the magnitude of the fringe count
calculateFringeSag_Magnitude(fringes, wavelength) ==
    DDiv(DMul(DAbs(fringes), DDiv(wavelength, FromInt(1000000))), Two)

\* calculateFringeSag without the division by 2
calculateFringeSag_NoHalf(fringes, wavelength) ==
    DMul(fringes, DDiv(wavelength, FromInt(1000000)))

calculateFringeSag(fringes, wavelength) ==
    DDiv(DMul(fringes, DDiv(wavelength, FromInt(1000000))), Two)

\* calculateActualSag with the two branches exchanged
calculateActualSag_Swapped(type, testplateSag, fringeSag) ==
    IF type = "Convex" THEN DSub(testplateSag, fringeSag)
    ELSE DAdd(testplateSag, fringeSag)

calculateActualSag(type, testplateSag, fringeSag) ==
    IF type = "Convex" THEN DAdd(testplateSag, fringeSag)
    ELSE DSub(testplateSag, fringeSag)

\* SignedRadius without Math.abs
SignedRadius_NoAbs(type, radius) ==
    IF type = "Concave" THEN DNeg(radius) ELSE radius

\* lines 82-86: the sign convention
SignedRadius(type, radius) ==
    IF type = "Concave" THEN DNeg(DAbs(radius)) ELSE DAbs(radius)

calculateActualRadius(type, diameter, sag) ==
    IF sag = DZero \/ diameter = DZero THEN DZero
    ELSE SignedRadius(type,
                      DDiv(DAdd(DDiv(DMul(diameter, diameter), FromInt(4)),
                                DMul(sag, sag)),
                           DMul(Two, sag)))

\* SurfaceResult with the radius computed from the testplate sag
SurfaceResult_FromTestplate(type, diameter, sagTestplate, sagAdded, sagActual) ==
    [sagTestplate |-> sagTestplate, sagAdded |-> sagAdded, sagActual |-> sagActual,
     rActual |-> calculateActualRadius(type, diameter, sagTestplate)]

\* lines 104-111
SurfaceResult(type, diameter, sagTestplate, sagAdded, sagActual) ==
    [sagTestplate |-> sagTestplate, sagAdded |-> sagAdded, sagActual |-> sagActual,
     rActual |-> calculateActualRadius(type, diameter, sagActual)]

\* lines 103-111
SurfaceSags(type, diameter, sagTestplate, sagAdded) ==
    SurfaceResult(type, diameter, sagTestplate, sagAdded,
                  calculateActualSag(type, sagTestplate, sagAdded))

calculateSurface(type, diameter, rTestplate, fringes, wavelength) ==
    SurfaceSags(type, diameter, calculateTestplateSag(rTestplate, diameter),
                calculateFringeSag(fringes, wavelength))

\* radiusToCurvature returning the radius
radiusToCurvature_Same(radius) == radius

\* lines 120-125
radiusToCurvature(radius) ==
    IF radius = DZero THEN DZero ELSE DDiv(FromInt(1), radius)

\* lines 133-138
curvatureToRadius(curvature) ==
    IF curvature = DZero THEN DZero ELSE DDiv(FromInt(1), curvature)

TooSmall == <<"Radius is too small for the given diameter">>

NotPositive == <<"Diameter must be positive">>

\* Errors with <= in the test of the radius
Errors_Strict(diameter, radius) ==
    (IF DLe(diameter, DZero) THEN NotPositive ELSE <<>>)
        \o (IF DLe(DAbs(radius), DDiv(diameter, Two)) THEN TooSmall ELSE <<>>)

\* lines 150-156: the two tests, each pushing its message
Errors(diameter, radius) ==
    (IF DLe(diameter, DZero) THEN NotPositive ELSE <<>>)
        \o (IF DLt(DAbs(radius), DDiv(diameter, Two)) THEN TooSmall ELSE <<>>)

ValidationOf(errors) == [valid |-> Len(errors) = 0, errors |-> errors]

validateInputs(diameter, radius) == ValidationOf(Errors(diameter, radius))

(***************************************************************************)
(* Inputs                                                                  *)
(***************************************************************************)
\* s1 + sep + s2 + ... : the inverse of split
RECURSIVE Join(_, _)
Join(ss, sep) ==
    IF ss = <<>> THEN <<>>
    ELSE IF Len(ss) = 1 THEN ss[1]
    ELSE ss[1] \o sep \o Join(Tail(ss), sep)

RECURSIVE Concat(_)
Concat(ss) == IF ss = <<>> THEN <<>> ELSE Head(ss) \o Concat(Tail(ss))

\* a surface in air: radius 50, diameter 25.4
BlockPlain ==
    <<<<"S", "U", "R", "F", " ", "1">>,
       <<"C", "U", "R", "V", " ", "0", ".", "0", "2", " ", "0", " ", "0">>,
       <<"D", "I", "A", "M", " ", "1", "2", ".", "7", " ", "1", " ", "0">>>>

\* an indented glass surface: radius -40, diameter 20
BlockGlass ==
    <<<<" ", " ", "S", "U", "R", "F", " ", "2">>,
       <<" ", " ", "C", "U", "R", "V", " ", "-", "2", ".", "5", "E", "-", "2">>,
       <<" ", " ", "G", "L", "A", "S", " ", "N", "-", "B", "K", "7", " ", "0", " ", "0">>,
       <<" ", " ", "D", "I", "A", "M", " ", "1", "0", " ", "0">>>>

\* a model glass given by its index: radius 10, diameter 6
BlockBlank ==
    <<<<"S", "U", "R", "F", " ", "9">>,
       <<"G", "L", "A", "S", " ", "_", "_", "_", "B", "L", "A", "N", "K", " ", "1", " ", "0", " ", "1", ".", "5", "2", " ", "0">>,
       <<"C", "U", "R", "V", " ", ".", "1">>,
       <<"D", "I", "A", "M", " ", "3">>>>

\* a flat surface
BlockFlat ==
    <<<<"S", "U", "R", "F", " ", "3">>,
       <<"C", "U", "R", "V", " ", "0", ".", "0">>,
       <<"D", "I", "A", "M", " ", "1", "2", ".", "7", " ", "1", " ", "0">>>>

\* a surface in air whose CURV and DIAM lines are repeated: the radius stays
\* -20 and the diameter 20
BlockRedo ==
    <<<<"S", "U", "R", "F", " ", "5">>,
       <<"C", "U", "R", "V", " ", "-", "0", ".", "0", "5">>,
       <<"D", "I", "A", "M", " ", "1", "0", " ", "0">>,
       <<"C", "U", "R", "V", " ", "0", ".", "0">>,
       <<"D", "I", "A", "M", " ", "-", "3">>>>

\* a surface with no field line
BlockBare ==
    <<<<"S", "U", "R", "F", " ", "4">>>>

\* a surface whose DIAM lines carry no positive number: the diameter stays 0
BlockStop ==
    <<<<"S", "U", "R", "F", " ", "7">>,
       <<"C", "U", "R", "V", " ", "0", ".", "1">>,
       <<"D", "I", "A", "M", " ", "0", " ", "1">>,
       <<"D", "I", "A", "M", " ", "x">>>>

\* a field line on its own
LineCurv ==
    <<<<"C", "U", "R", "V", " ", "-", "2", ".", "5", "E", "-", "2">>>>

\* a line of a text file
LineText ==
    <<<<"S", "1", " ", "-", "5", "0", ".", "0", " ", "2", "5", ".", "4">>>>

\* two lines of a CSV file
LinesCsv ==
    <<<<"5", "0", ",", "2", "5">>,
       <<"-", "4", "0", ",", " ", "2", "0", ",", "x">>>>

\* rows of a CSV file that give no record (a header, radius 0, diameter 0, a
\* negative diameter, no number, one field, blanks) and one that does
RowsCsv ==
    <<<<"R", "A", "D", "I", "U", "S", ",", "D", "I", "A", "M">>,
       <<"0", ",", "2", "5">>,
       <<"5", "0", ",", "0">>,
       <<"5", "0", ",", "-", "3">>,
       <<"x", ",", "5">>,
       <<"7">>,
       <<" ", " ">>,
       <<" ", "-", "3", ".", "5", ",", "4", " ">>>>

\* a comment, a blank line, a malformed line and another comment
LinesBad ==
    <<<<"#", " ", "2", " ", "4", "0", " ", "1", "0">>,
       <<>>,
       <<"S", "3", " ", "a", "b", "c", " ", "5">>,
       <<" ", "/", "/", " ", "2", " ", "3">>>>

\* the fragments of a Zemax file, and those of any file
ZmxFragments ==
    {BlockPlain, BlockGlass, BlockBlank, BlockFlat, BlockRedo, BlockBare,
     BlockStop, LineCurv}

Fragments == ZmxFragments \cup {LineText, LinesCsv, RowsCsv, LinesBad}

\* the files of at most max fragments
FilesOf(fragments, max) ==
    {Join(Concat(fs), <<"\n">>) :
        fs \in UNION {[1..k -> fragments] : k \in 0..max}}

\* a Zemax file is made of at most MaxBlocks fragments
MaxBlocks == 3

\* a prescription of six surfaces: the object plane, four lens surfaces and
\* the image plane
LensFile ==
    Join(BlockBare \o BlockBlank \o BlockGlass \o BlockPlain \o BlockRedo \o BlockFlat,
         <<"\n">>)

\* field lines ahead of the first surface
Preamble ==
    <<<<"C", "U", "R", "V", " ", "0", ".", "5">>,
       <<"D", "I", "A", "M", " ", "4">>,
       <<"G", "L", "A", "S", " ", "S", "F", "5">>>>

\* a file whose lens surfaces alternate with surfaces that give no record
MixedFile ==
    Join(Preamble \o BlockBare \o BlockPlain \o BlockStop \o BlockGlass
             \o BlockFlat \o BlockBlank \o BlockBare,
         <<"\n">>)

\* a window between two bare surfaces: a diameter and a glass, no CURV line
WindowFile ==
    Join(BlockBare
             \o <<<<"S", "U", "R", "F", " ", "1">>,
                  <<"D", "I", "A", "M", " ", "1", "2", ".", "7">>,
                  <<"G", "L", "A", "S", " ", "N", "-", "B", "K", "7", " ", "0", " ", "0">>>>
             \o BlockBare,
         <<"\n">>)

ZmxContents ==
    FilesOf(ZmxFragments, MaxBlocks) \cup {LensFile, MixedFile, WindowFile}

\* any other file is made of at most MaxFragments fragments
MaxFragments == 2

\* a list of surfaces: three records among comments, a blank line and a
\* malformed line
SurfaceList ==
    Join(<<<<"#", " ", "l", "e", "n", "s">>,
           <<"S", "1", " ", "-", "5", "0", ".", "0", " ", "2", "5", ".", "4">>,
           <<"S", "2", " ", "a", "b", "c", " ", "5">>,
           <<"S", "3", "\t", "4", "0", " ", " ", "2", "0", " ", "B", "K", "7">>,
           <<>>,
           <<" ", "S", "4", " ", "1", "e", "2", " ", "1", "2", ".", "5">>,
           <<"/", "/", " ", "9", " ", "9">>>>, <<"\n">>)

Contents == FilesOf(Fragments, MaxFragments) \cup {SurfaceList, WindowFile}

\* the materials determineSurfaceType is called with
Materials == {null, <<>>, <<"N", "-", "B", "K", "7">>, <<"n", "=", "1", ".", "5", "2", "0", "0">>}

\* GLAS lines: "GLAS", a material token and parameters, separated by sep
MaterialTokens ==
    {<<"N", "-", "B", "K", "7">>, <<"_", "_", "_", "B", "L", "A", "N", "K">>, <<"_", "_", "_">>, <<"_">>, <<"_", "_", "_", "B", "L", "A", "N", "K", "S">>}

GlasTails ==
    {<<>>,
     <<<<"1">>, <<"0">>>>,
     <<<<"1">>, <<"0">>, <<"1", ".", "5", "2">>>>,
     <<<<"1">>, <<"0">>, <<"1", ".", "5", "2">>, <<"0">>, <<"0">>>>,
     <<<<"1">>, <<"0">>, <<"1", ".", "0">>>>,
     <<<<"1">>, <<"0">>, <<"0", ".", "9">>>>,
     <<<<"1">>, <<"0">>, <<"a", "b", "c">>>>,
     <<<<"1">>, <<"0">>, <<"1", ".", "7", "e", "0", "x">>, <<"5">>>>,
     <<<<"1">>, <<"0">>, <<"1", ".", "0", "0", "0", "0", "6">>>>}

Separators == {<<" ">>, <<" ", "\t", " ">>}

GlasCases ==
    [material : MaterialTokens, tail : GlasTails, sep : Separators]

GlasLine(g) == Join(<<<<"G", "L", "A", "S">>, g.material>> \o g.tail, g.sep)

\* the numbers the calculator is called with
MaxNum == 4

MaxDen == 2

Values == {R(a, b) : a \in -MaxNum..MaxNum, b \in 1..MaxDen}

Types == {"Convex", "Concave", "Plano"}

\* the doubles the calculator is called with
Doubles == {DDiv(FromInt(a), FromInt(b)) : a \in -MaxNum..MaxNum, b \in 1..MaxDen}

\* the radius of a nearly flat testplate: 100 km, in mm
LongRadii == {FromInt(100000000), DNeg(FromInt(100000000))}

\* with the diameter and the radius of the documented example, and NaN
SurfaceDiameters == {FromInt(k) : k \in -1..MaxNum} \cup {FromInt(30)}

SurfaceRadii == {FromInt(k) : k \in -MaxNum..MaxNum} \cup {FromInt(33), DNaN}

FringeCounts == {FromInt(-3), DZero, DDiv(FromInt(1), Two), FromInt(5)}

\* wavelengths in nm: 0.5 mm, 1 mm and the 632.8 nm of the example
Wavelengths == {FromInt(500000), FromInt(1000000), DDiv(FromInt(6328), FromInt(10))}

\* radii and curvatures to convert
Convertibles ==
    Doubles \cup {FromInt(49), FromInt(-49), DDiv(FromInt(1), FromInt(49)),
                  FromInt(1024), DDiv(FromInt(1), FromInt(1024))}

(***************************************************************************)
(* The calls                                                               *)
(***************************************************************************)
VARIABLES
    pc,             \* "idle", "scan" (in parseZmxFormat's second pass), "done"
    call,           \* the call in progress or last completed: [op, args]
    lines,          \* parseZmxFormat: content.split('\n')
    i,              \* parseZmxFormat: the index of the next line, from 1
    currentSurface, \* parseZmxFormat: <<>> for null, or <<accumulator>>
    surfaceNumber,  \* parseZmxFormat
    totalSurfaces,  \* parseZmxFormat
    surfaces,       \* parseZmxFormat: the records pushed so far
    blocks,         \* history: the accumulators flushed so far, each with
                    \* whether its flush pushed a record
    result,         \* the value the last completed call returned
    earlier,        \* history: the calls completed in a session of calls,
                    \* each with its arguments and its result
    started,        \* TabManager: init has attached the handlers
    tabs,           \* TabManager.tabs: the ids of the tab objects, in order
    activeTabId,    \* TabManager.activeTabId, 0 for null
    selectedItems,  \* TabManager.selectedItems, in insertion order
    autosaveTimeout,\* the tab the pending autosave timer saves, 0 if none
    tabSurfaces,    \* tab.surfaces of every tab object: the edit it holds
    tableData,      \* the table on screen: what collectTableData returns
    sidebar,        \* the tabs drawn by the last renderSidebar
    timestamp,      \* Date.now(): the id of the next tab
    edits,          \* the number of edits made on screen
    invocations,    \* the calls of window.electronAPI not yet answered
    files,          \* the main process: the edit held by <id>.json, -1 for
                    \* no file
    thrown          \* history: an operation has thrown a TypeError

\* the TabManager object, the page and the tables directory
tabVars == <<started, tabs, activeTabId, selectedItems, autosaveTimeout,
             tabSurfaces, tableData, sidebar, timestamp, edits, invocations,
             files, thrown>>

\* the parser, the calculator and their callers
callVars == <<pc, call, lines, i, currentSurface, surfaceNumber, totalSurfaces,
              surfaces, blocks, result, earlier>>

vars == <<callVars, tabVars>>

scanVars == <<lines, i, currentSurface, surfaceNumber, totalSurfaces,
              surfaces, blocks>>

NoCall == [op |-> "none", args |-> <<>>]

\* the ids Date.now() can give to a tab
MaxTabs == 4

TabIds == 1..MaxTabs

\* part_002:7-10, the object literal, on a first launch: an empty tables
\* directory and an empty table on screen
TabManagerLoaded ==
    /\ started = FALSE
    /\ tabs = <<>>
    /\ activeTabId = 0
    /\ selectedItems = <<>>
    /\ autosaveTimeout = 0
    /\ tabSurfaces = [t \in TabIds |-> 0]
    /\ tableData = 0
    /\ sidebar = {}
    /\ timestamp = 1
    /\ edits = 0
    /\ invocations = <<>>
    /\ files = [t \in TabIds |-> -1]
    /\ thrown = FALSE

Init ==
    /\ pc = "idle"
    /\ call = NoCall
    /\ lines = <<>>
    /\ i = 1
    /\ currentSurface = <<>>
    /\ surfaceNumber = -1
    /\ totalSurfaces = 0
    /\ surfaces = <<>>
    /\ blocks = <<>>
    /\ result = <<>>
    /\ earlier = <<>>
    /\ TabManagerLoaded

\* a call of a function that runs in one step
Return(op, args, value) ==
    /\ pc' = "done"
    /\ call' = [op |-> op, args |-> args]
    /\ result' = value
    /\ lines' = <<>>
    /\ i' = 1
    /\ currentSurface' = <<>>
    /\ surfaceNumber' = -1
    /\ totalSurfaces' = 0
    /\ surfaces' = <<>>
    /\ blocks' = <<>>
    /\ earlier' = earlier
    /\ UNCHANGED tabVars

\* ZmxBegin with surfaces kept from one call to the next, as a property of
\* the ZemaxParser object would be
ZmxBegin_Shared(contents) ==
    /\ pc = "idle"
    /\ \E content \in contents :
        /\ pc' = "scan"
        /\ call' = [op |-> "parseZmxFormat", args |-> <<content>>]
        /\ lines' = Split(content, "\n")
        /\ i' = 1
        /\ currentSurface' = <<>>
        /\ surfaceNumber' = -1
        /\ totalSurfaces' = CountSurfaces(lines')
        /\ surfaces' = surfaces
        /\ blocks' = <<>>
        /\ result' = <<>>
    /\ UNCHANGED tabVars

\* parseZmxFormat, lines 39-51: the locals and the first pass
ZmxBegin(contents) ==
    /\ pc = "idle"
    /\ \E content \in contents :
        /\ pc' = "scan"
        /\ call' = [op |-> "parseZmxFormat", args |-> <<content>>]
        /\ lines' = Split(content, "\n")
        /\ i' = 1
        /\ currentSurface' = <<>>
        /\ surfaceNumber' = -1
        /\ totalSurfaces' = CountSurfaces(lines')
        /\ surfaces' = <<>>
        /\ blocks' = <<>>
        /\ result' = <<>>
    /\ UNCHANGED tabVars

ParseZmxFormatBegin == ZmxBegin(ZmxContents) /\ UNCHANGED earlier

\* the second pass moves to the scan state st
ScanTo(st) ==
    /\ currentSurface' = st.currentSurface
    /\ surfaceNumber' = st.surfaceNumber
    /\ surfaces' = st.surfaces
    /\ blocks' = IF st.surfaceNumber # surfaceNumber /\ currentSurface # <<>>
                 THEN Append(blocks, [surface |-> currentSurface[1],
                                      emitted |-> Len(st.surfaces) > Len(surfaces)])
                 ELSE blocks

\* parseZmxFormat, lines 54-103: one iteration of the second pass
ParseZmxFormatLine ==
    /\ pc = "scan"
    /\ i <= Len(lines)
    /\ ScanTo(ZmxLine([currentSurface |-> currentSurface,
                       surfaceNumber |-> surfaceNumber,
                       surfaces |-> surfaces], lines[i], totalSurfaces))
    /\ i' = i + 1
    /\ UNCHANGED <<pc, call, lines, totalSurfaces, result, earlier, tabVars>>

\* parseZmxFormat, lines 105-112: the last flush and the return
ZmxEnd ==
    /\ pc = "scan"
    /\ i > Len(lines)
    /\ surfaces' = Flush(currentSurface, surfaces, totalSurfaces)
    /\ blocks' = IF currentSurface # <<>>
                 THEN Append(blocks, [surface |-> currentSurface[1],
                                      emitted |-> Len(surfaces') > Len(surfaces)])
                 ELSE blocks
    /\ result' = surfaces'
    /\ pc' = "done"
    /\ UNCHANGED <<call, lines, i, currentSurface, surfaceNumber, totalSurfaces,
                   tabVars>>

ParseZmxFormatEnd == ZmxEnd /\ UNCHANGED earlier

\* the caller has taken the returned value: the locals of the call are gone,
\* and the objects keep nothing of it
Idle ==
    /\ pc = "done"
    /\ pc' = "idle"
    /\ call' = NoCall
    /\ result' = <<>>
    /\ lines' = <<>>
    /\ i' = 1
    /\ currentSurface' = <<>>
    /\ surfaceNumber' = -1
    /\ totalSurfaces' = 0
    /\ surfaces' = <<>>
    /\ blocks' = <<>>
    /\ earlier' = earlier
    /\ UNCHANGED tabVars

CallParseTextFormat ==
    /\ pc = "idle"
    /\ \E content \in Contents :
        Return("parseTextFormat", <<content>>, parseTextFormat(content))

CallParseCSV ==
    /\ pc = "idle"
    /\ \E content \in Contents :
        Return("parseCSV", <<content>>, parseCSV(content))

CallParse ==
    /\ pc = "idle"
    /\ \E content \in Contents \cup ZmxContents :
        Return("parse", <<content>>, parse(content))

CallExtractMaterial ==
    /\ pc = "idle"
    /\ \E g \in GlasCases :
        Return("extractMaterial", <<GlasLine(g), g>>, extractMaterial(GlasLine(g)))

CallDetermineSurfaceType ==
    /\ pc = "idle"
    /\ \E radius \in Values, material \in Materials :
        Return("determineSurfaceType", <<radius, material>>,
               determineSurfaceType(radius, material))

CallCalculateTestplateSag ==
    /\ pc = "idle"
    /\ \E radius \in Doubles \cup LongRadii, diameter \in Doubles :
        Return("calculateTestplateSag", <<radius, diameter>>,
               calculateTestplateSag(radius, diameter))

CallCalculateActualRadius ==
    /\ pc = "idle"
    /\ \E type \in Types, diameter \in Doubles, sag \in Doubles :
        Return("calculateActualRadius", <<type, diameter, sag>>,
               calculateActualRadius(type, diameter, sag))

CallCalculateSurface ==
    /\ pc = "idle"
    /\ \E type \in Types, diameter \in SurfaceDiameters, rTestplate \in SurfaceRadii,
       fringes \in FringeCounts, wavelength \in Wavelengths :
        Return("calculateSurface", <<type, diameter, rTestplate, fringes, wavelength>>,
               calculateSurface(type, diameter, rTestplate, fringes, wavelength))

CallCalculateFringeSag ==
    /\ pc = "idle"
    /\ \E fringes \in Doubles, wavelength \in Wavelengths :
        Return("calculateFringeSag", <<fringes, wavelength>>,
               calculateFringeSag(fringes, wavelength))

CallCalculateActualSag ==
    /\ pc = "idle"
    /\ \E type \in Types, testplateSag \in Doubles, fringeSag \in Doubles :
        Return("calculateActualSag", <<type, testplateSag, fringeSag>>,
               calculateActualSag(type, testplateSag, fringeSag))

CallRadiusToCurvature ==
    /\ pc = "idle"
    /\ \E radius \in Convertibles :
        Return("radiusToCurvature", <<radius>>, radiusToCurvature(radius))

CallCurvatureToRadius ==
    /\ pc = "idle"
    /\ \E curvature \in Convertibles :
        Return("curvatureToRadius", <<curvature>>, curvatureToRadius(curvature))

CallValidateInputs ==
    /\ pc = "idle"
    /\ \E diameter \in Doubles, radius \in Doubles \cup LongRadii :
        Return("validateInputs", <<diameter, radius>>,
               validateInputs(diameter, radius))

CallDetectFormat ==
    /\ pc = "idle"
    /\ \E content \in Contents :
        Return("detectFormat", <<content>>, detectFormat(content))

Next ==
    \/ ParseZmxFormatBegin
    \/ ParseZmxFormatLine
    \/ ParseZmxFormatEnd
    \/ CallParseTextFormat
    \/ CallParseCSV
    \/ CallParse
    \/ CallExtractMaterial
    \/ CallDetermineSurfaceType
    \/ CallCalculateTestplateSag
    \/ CallCalculateActualRadius
    \/ CallCalculateSurface
    \/ CallCalculateFringeSag
    \/ CallCalculateActualSag
    \/ CallRadiusToCurvature
    \/ CallCurvatureToRadius
    \/ CallValidateInputs
    \/ CallDetectFormat
    \/ Idle

Spec == Init /\ [][Next]_vars

(***************************************************************************)
(* A session of calls                                                      *)
(***************************************************************************)
\* Calls made one after the other on the same two objects.  What a call of
\* parseZmxFormat leaves in its locals stays where it is when the call
\* returns (SessionIdle), so that anything the next call took from it would
\* show in its result; every completed call is recorded in earlier.
MaxCalls == 3

\* the files parsed in a session
SessionContents ==
    {LensFile,
     Join(BlockPlain \o BlockGlass \o BlockFlat, <<"\n">>),
     Join(LineCurv \o BlockBare, <<"\n">>)}

\* the surfaces computed in a session
SessionSurfaces ==
    {<<"Convex", FromInt(30), FromInt(33), FromInt(5), DDiv(FromInt(6328), FromInt(10))>>,
     <<"Concave", FromInt(4), FromInt(-3), FromInt(-3), FromInt(500000)>>}

Completed(value) == [op |-> call.op, args |-> call.args, result |-> value]

SessionParseBegin ==
    /\ Len(earlier) < MaxCalls
    /\ ZmxBegin(SessionContents)
    /\ UNCHANGED earlier

SessionParseEnd ==
    /\ ZmxEnd
    /\ earlier' = Append(earlier, Completed(result'))

SessionCalculateSurface ==
    /\ pc = "idle"
    /\ Len(earlier) < MaxCalls
    /\ \E args \in SessionSurfaces :
        /\ pc' = "done"
        /\ call' = [op |-> "calculateSurface", args |-> args]
        /\ result' = calculateSurface(args[1], args[2], args[3], args[4], args[5])
        /\ earlier' = Append(earlier, [op |-> "calculateSurface", args |-> args,
                                       result |-> result'])
        /\ UNCHANGED <<scanVars, tabVars>>

\* the call has returned; nothing is cleared
SessionIdle ==
    /\ pc = "done"
    /\ pc' = "idle"
    /\ UNCHANGED <<call, result, scanVars, earlier, tabVars>>

SessionNext ==
    \/ SessionParseBegin
    \/ ParseZmxFormatLine
    \/ SessionParseEnd
    \/ SessionCalculateSurface
    \/ SessionIdle

SessionSpec == Init /\ [][SessionNext]_vars


(***************************************************************************)
(* The TabManager                                                          *)
(***************************************************************************)
\* The renderer runs one handler at a time; an async operation gives way at
\* each await of window.electronAPI and goes on when the main process has
\* answered.  The main process handles the invocations it holds in any order
\* (fs:saveTab awaits ensureTablesDir before it writes).  Nothing in the
\* renderer reads the tables directory after init, so the handling of an
\* invocation and the continuation of the operation that awaits it are one
\* step: whatever the renderer does between the two it can do before both.
\* A tab object is its id; what it holds is tabSurfaces[id], the number of
\* the edit last recorded into it (0 for a new tab).

\* the edits made on screen in a run
MaxEdits == 2

\* the invocations the main process holds at a time
MaxInvocations == 2

SeqHas(seq, x) == \E k \in 1..Len(seq) : seq[k] = x

\* Array.prototype.findIndex, counted from 1
FindIndex(seq, x) == CHOOSE k \in 1..Len(seq) : seq[k] = x

\* Array.prototype.splice(index, 1), index counted from 1
Splice(seq, index) == SubSeq(seq, 1, index - 1) \o SubSeq(seq, index + 1, Len(seq))

SeqRange(seq) == {seq[k] : k \in 1..Len(seq)}

\* the TabManager object and the page, as the handlers see them
TabManager ==
    [tabs |-> tabs, activeTabId |-> activeTabId, selectedItems |-> selectedItems,
     autosaveTimeout |-> autosaveTimeout, tabSurfaces |-> tabSurfaces,
     tableData |-> tableData, sidebar |-> sidebar, timestamp |-> timestamp,
     invocations |-> invocations, thrown |-> thrown]

\* the handler leaves the object and the page as tm
Becomes(tm) ==
    /\ tabs' = tm.tabs
    /\ activeTabId' = tm.activeTabId
    /\ selectedItems' = tm.selectedItems
    /\ autosaveTimeout' = tm.autosaveTimeout
    /\ tabSurfaces' = tm.tabSurfaces
    /\ tableData' = tm.tableData
    /\ sidebar' = tm.sidebar
    /\ timestamp' = tm.timestamp
    /\ invocations' = tm.invocations
    /\ thrown' = tm.thrown

\* a call of window.electronAPI awaited by operation op ("none" when nobody
\* awaits it), with what op needs to go on: index for deleteTab, the ids
\* still to delete for deleteMultiple
Invocation(channel, tabId, data, op, index, rest) ==
    [channel |-> channel, tabId |-> tabId, data |-> data, op |-> op,
     index |-> index, rest |-> rest]

\* part_002:332-340
renderSidebar(tm) == [tm EXCEPT !.sidebar = SeqRange(tm.tabs)]

\* part_002:154-167: the table on screen is recorded into the active tab and
\* the one autosave timer is set anew, for that tab
saveCurrentTab(tm) ==
    IF ~SeqHas(tm.tabs, tm.activeTabId) THEN tm
    ELSE [tm EXCEPT !.tabSurfaces[tm.activeTabId] = tm.tableData,
                    !.autosaveTimeout = tm.activeTabId]

\* part_002:142-151
ShowTab(tm, tabId) ==
    renderSidebar([tm EXCEPT !.activeTabId = tabId,
                             !.tableData = tm.tabSurfaces[tabId]])

\* part_002:133-152
switchToTab(tm, tabId) ==
    IF ~SeqHas(tm.tabs, tabId) THEN tm
    ELSE ShowTab(IF tm.activeTabId # 0 /\ tm.activeTabId # tabId
                 THEN saveCurrentTab(tm) ELSE tm,
                 tabId)

\* part_002:34-50: createTab up to its await
CreateTabBegin(tm) ==
    [tm EXCEPT !.tabs = Append(@, tm.timestamp),
               !.timestamp = @ + 1,
               !.invocations =
                   Append(@, Invocation("fs:saveTab", tm.timestamp, 0,
                                        "createTab", 0, <<>>))]

\* part_002:51-54: createTab after its await
CreateTabEnd(tm, tabId) == switchToTab(renderSidebar(tm), tabId)

\* part_002:57-71: deleteTab up to its await
DeleteTabBegin(tm, tabId) ==
    IF ~SeqHas(tm.tabs, tabId) THEN tm
    ELSE [tm EXCEPT !.tabs = Splice(@, FindIndex(tm.tabs, tabId)),
                    !.invocations =
                        Append(@, Invocation("fs:deleteTab", tabId, 0, "deleteTab",
                                             FindIndex(tm.tabs, tabId), <<>>))]

\* part_002:76: the place in tabs, counted from 1, of
\* this.tabs[Math.max(0, index - 1)]
NewActivePlace(index) == IF index - 2 < 0 THEN 1 ELSE index - 1

\* part_002:75-78; newActiveTab.id throws when there is no tab at that place
SwitchAfterDelete(tm, tabId, index) ==
    IF tm.activeTabId # tabId THEN renderSidebar(tm)
    ELSE IF NewActivePlace(index) > Len(tm.tabs) THEN [tm EXCEPT !.thrown = TRUE]
    ELSE renderSidebar(switchToTab(tm, tm.tabs[NewActivePlace(index)]))

\* part_002:73-86: deleteTab after its await
DeleteTabEnd(tm, tabId, index) ==
    IF tm.tabs # <<>> THEN SwitchAfterDelete(tm, tabId, index)
    ELSE CreateTabBegin(tm)

\* part_002:114-120
DeleteMultipleEnd(tm) ==
    renderSidebar([(IF tm.tabs # <<>> THEN switchToTab(tm, tm.tabs[1]) ELSE tm)
                      EXCEPT !.selectedItems = <<>>])

\* part_002:105-120: the loop over the ids still to delete, up to its next
\* await or to the end of deleteMultiple
RECURSIVE DeleteNext(_, _)
DeleteNext(tm, rest) ==
    IF rest = <<>> THEN DeleteMultipleEnd(tm)
    ELSE IF SeqHas(tm.tabs, Head(rest))
    THEN [tm EXCEPT !.tabs = Splice(@, FindIndex(tm.tabs, Head(rest))),
                    !.invocations =
                        Append(@, Invocation("fs:deleteTab", Head(rest), 0,
                                             "deleteMultiple", 0, Tail(rest)))]
    ELSE DeleteNext(tm, Tail(rest))

\* part_002:89-103 with the confirmation given: every selected item is the
\* id of a tab
DeleteMultipleBegin(tm) ==
    IF tm.selectedItems = <<>> THEN tm
    ELSE IF Len(tm.tabs) - Len(tm.selectedItems) < 1 THEN tm
    ELSE DeleteNext(tm, tm.selectedItems)

\* part_002:174-186 with multiSelect
toggleSelection(tm, itemId) ==
    renderSidebar([tm EXCEPT !.selectedItems =
                       IF SeqHas(@, itemId) THEN Splice(@, FindIndex(@, itemId))
                       ELSE Append(@, itemId)])

\* part_002:164-170: the body of the timer, saveTab(tab), awaited by nobody
SaveTabByTimer(tm) ==
    [tm EXCEPT !.autosaveTimeout = 0,
               !.invocations =
                   Append(@, Invocation("fs:saveTab", tm.autosaveTimeout,
                                        tm.tabSurfaces[tm.autosaveTimeout],
                                        "none", 0, <<>>))]

\* the operation that awaited the invocation goes on
Resume(tm, invocation) ==
    CASE invocation.op = "createTab" -> CreateTabEnd(tm, invocation.tabId)
      [] invocation.op = "deleteTab" ->
             DeleteTabEnd(tm, invocation.tabId, invocation.index)
      [] invocation.op = "deleteMultiple" -> DeleteNext(tm, invocation.rest)
      [] OTHER -> tm

\* part_001:206-211 and 223-231: fs:saveTab writes the file, fs:deleteTab
\* unlinks it
Handled(fs, invocation) ==
    IF invocation.channel = "fs:saveTab"
    THEN [fs EXCEPT ![invocation.tabId] = invocation.data]
    ELSE [fs EXCEPT ![invocation.tabId] = -1]

\* part_002:12-25 on a first launch: no tab is loaded, the handlers are
\* attached and the default table is created
TabManagerInit ==
    /\ ~started
    /\ started' = TRUE
    /\ Becomes(CreateTabBegin(renderSidebar(TabManager)))
    /\ UNCHANGED <<edits, files, callVars>>

\* part_002:403-405: the new tab button
ClickNewTab ==
    /\ started
    /\ Len(invocations) < MaxInvocations
    /\ timestamp < MaxTabs
    /\ Becomes(CreateTabBegin(TabManager))
    /\ UNCHANGED <<started, edits, files, callVars>>

\* part_002:383-386: the close button of a tab of the sidebar
ClickClose ==
    /\ started
    /\ Len(invocations) < MaxInvocations
    /\ timestamp <= MaxTabs
    /\ \E tabId \in sidebar : Becomes(DeleteTabBegin(TabManager, tabId))
    /\ UNCHANGED <<started, edits, files, callVars>>

\* part_002:368-374: a click on a tab of the sidebar
ClickTab ==
    /\ started
    /\ \E tabId \in sidebar : Becomes(switchToTab(TabManager, tabId))
    /\ UNCHANGED <<started, edits, files, callVars>>

\* part_002:368-370: a click with the control key
CtrlClickTab ==
    /\ started
    /\ \E tabId \in sidebar : Becomes(toggleSelection(TabManager, tabId))
    /\ UNCHANGED <<started, edits, files, callVars>>

\* part_002:203-205: the context menu of a selected tab offers deleteMultiple
\* when more than one item is selected
ClickDeleteMultiple ==
    /\ started
    /\ Len(invocations) < MaxInvocations
    /\ timestamp <= MaxTabs
    /\ Len(selectedItems) > 1
    /\ \E tabId \in sidebar : SeqHas(selectedItems, tabId)
    /\ Becomes(DeleteMultipleBegin(TabManager))
    /\ UNCHANGED <<started, edits, files, callVars>>

\* part_002:408-419: an input event of the table; the table on screen holds
\* a new edit
EditTable ==
    /\ started
    /\ edits < MaxEdits
    /\ edits' = edits + 1
    /\ Becomes(saveCurrentTab([TabManager EXCEPT !.tableData = edits + 1]))
    /\ UNCHANGED <<started, files, callVars>>

\* part_002:164-166: the autosave timer fires
AutosaveFires ==
    /\ autosaveTimeout # 0
    /\ Len(invocations) < MaxInvocations
    /\ Becomes(SaveTabByTimer(TabManager))
    /\ UNCHANGED <<started, edits, files, callVars>>

\* the main process answers the k-th invocation it holds and the renderer
\* goes on
AnswerAt(k) ==
    /\ k \in 1..Len(invocations)
    /\ files' = Handled(files, invocations[k])
    /\ Becomes(Resume([TabManager EXCEPT !.invocations = Splice(@, k)],
                      invocations[k]))
    /\ UNCHANGED <<started, edits, callVars>>

Answer == \E k \in 1..Len(invocations) : AnswerAt(k)

\* the user adds, closes, selects and deletes tables and goes from one to
\* another
TabNext ==
    \/ TabManagerInit
    \/ ClickNewTab
    \/ ClickClose
    \/ ClickTab
    \/ CtrlClickTab
    \/ ClickDeleteMultiple
    \/ AutosaveFires
    \/ Answer

TabSpec == Init /\ [][TabNext]_vars

\* the user edits tables, adds tables and goes from one to another; the
\* timer fires when its delay has passed and the main process answers every
\* invocation: the oldest one it holds is answered in the end
AutosaveNext ==
    \/ TabManagerInit
    \/ ClickNewTab
    \/ ClickTab
    \/ EditTable
    \/ AutosaveFires
    \/ Answer

AutosaveSpec ==
    /\ Init
    /\ [][AutosaveNext]_vars
    /\ WF_vars(AutosaveFires)
    /\ WF_vars(AnswerAt(1))

(***************************************************************************)
(* Properties                                                              *)
(***************************************************************************)
Max0(a) == IF a < 0 THEN 0 ELSE a

InZmx == call.op = "parseZmxFormat"

\* the accumulators whose flush pushed a record, in order
EmittedBlocks == SelectSeq(blocks, LAMBDA b : b.emitted)

\* C1: with N surface boundary lines parseZmxFormat has at most max(0, N-2)
\* records, and the blocks with index 0 and N-1 never contribute one
C1_EndpointsExcluded ==
    InZmx =>
        /\ Len(surfaces) <= Max0(totalSurfaces - 2)
        /\ \A k \in 1..Len(blocks) :
               blocks[k].surface.number \in {0, totalSurfaces - 1}
                   => ~blocks[k].emitted

\* a file of at least three blocks whose first and last block hold valid data
C1_Witness ==
    /\ InZmx /\ pc = "done"
    /\ totalSurfaces >= 3 /\ Len(blocks) = totalSurfaces
    /\ isValidSurface(blocks[1].surface)
    /\ isValidSurface(blocks[totalSurfaces].surface)
    /\ Len(result) >= 1

\* the table of the sign convention
TypeTable(hasMaterial, positive) ==
    CASE hasMaterial /\ positive -> "Convex"
      [] hasMaterial /\ ~positive -> "Concave"
      [] ~hasMaterial /\ positive -> "Concave"
      [] ~hasMaterial /\ ~positive -> "Convex"

\* the radii of the lines of a text file that contribute a record
RECURSIVE TextRadii(_, _)
TextRadii(ls, k) ==
    IF k > Len(ls) THEN <<>>
    ELSE (IF TextLine(ls[k]) # <<>>
          THEN <<parseFloat(SplitWs(Trim(ls[k]))[2])>> ELSE <<>>)
         \o TextRadii(ls, k + 1)

\* the radii of the lines of a CSV file that contribute a record
RECURSIVE CsvRadii(_, _)
CsvRadii(ls, k) ==
    IF k > Len(ls) THEN <<>>
    ELSE (IF CsvLine(ls[k]) # <<>>
          THEN <<parseFloat(Split(Trim(ls[k]), ",")[1])>> ELSE <<>>)
         \o CsvRadii(ls, k + 1)

TypesAre(records, radii, hasMaterial) ==
    /\ Len(records) = Len(radii)
    /\ \A k \in 1..Len(records) :
           records[k].type = TypeTable(hasMaterial, RGt(radii[k], Zero))

\* C2: the type of a record is given by the table over (material present,
\* radius sign); parseTextFormat and parseCSV use the material-absent row
C2_TypeTable ==
    /\ call.op = "determineSurfaceType" /\ call.args[1] # Zero
           => result = TypeTable(call.args[2] \notin {null, <<>>},
                                 RGt(call.args[1], Zero))
    /\ InZmx
           => /\ Len(surfaces) = Len(EmittedBlocks)
              /\ \A k \in 1..Len(surfaces) :
                     surfaces[k].type =
                         TypeTable(EmittedBlocks[k].surface.material # null,
                                   RGt(EmittedBlocks[k].surface.radius, Zero))
    /\ call.op = "parseTextFormat"
           => TypesAre(result, TextRadii(Split(call.args[1], "\n"), 1), FALSE)
    /\ call.op = "parseCSV"
           => TypesAre(result, CsvRadii(Split(call.args[1], "\n"), 2), FALSE)

\* a file whose records fill the four cells of the table
C2_Witness ==
    /\ InZmx /\ pc = "done"
    /\ \A m \in BOOLEAN, positive \in BOOLEAN :
           \E k \in 1..Len(result) :
               /\ (EmittedBlocks[k].surface.material # null) = m
               /\ RGt(EmittedBlocks[k].surface.radius, Zero) = positive

TextExample == LineText[1]

IsTextExample == call.op = "parseTextFormat" /\ call.args[1] = TextExample

\* C3 as stated: parseTextFormat("S1 -50.0 25.4") is one record with
\* diameter 25.4, testplate radius 50.0 and type Concave
C3_Original ==
    IsTextExample =>
        /\ Len(result) = 1
        /\ result[1].diameter = R(254, 10)
        /\ result[1].rTestplate = Num(50)
        /\ result[1].type = "Concave"

\* C3 amended: parseTextFormat("S1 -50.0 25.4") is one record with diameter
\* 25.4, testplate radius 50.0 and type Convex
C3_TextExample ==
    IsTextExample =>
        /\ Len(result) = 1
        /\ result[1].diameter = R(254, 10)
        /\ result[1].rTestplate = Num(50)
        /\ result[1].type = "Convex"

C3_Witness == IsTextExample /\ pc = "done" /\ Len(result) = 1

\* the first non-empty of the two results, or the empty sequence
FirstNonEmpty(a, b) == IF a # <<>> THEN a ELSE IF b # <<>> THEN b ELSE <<>>

\* C4: parse returns the result of parseZmxFormat if not empty, otherwise
\* that of parseTextFormat if not empty, otherwise the empty sequence,
\* whatever parseCSV returns
C4_ParseChain ==
    call.op = "parse" =>
        result = FirstNonEmpty(parseZmxFormat(call.args[1]),
                               parseTextFormat(call.args[1]))

\* parse falls back to the text result of a file for which parseCSV has
\* another result
C4_Witness ==
    /\ call.op = "parse" /\ pc = "done"
    /\ parseZmxFormat(call.args[1]) = <<>>
    /\ result # <<>>
    /\ parseCSV(call.args[1]) # <<>>
    /\ parseCSV(call.args[1]) # result

\* C5 as stated: parse is never empty when parseZmxFormat, parseTextFormat or
\* parseCSV has a record for the content
C5_NeverEmptyIfAnyStrategy ==
    (/\ call.op = "parse"
     /\ \/ parseZmxFormat(call.args[1]) # <<>>
        \/ parseTextFormat(call.args[1]) # <<>>
        \/ parseCSV(call.args[1]) # <<>>)
        => result # <<>>

\* the records a parser has produced
Records ==
    IF InZmx THEN surfaces
    ELSE IF call.op \in {"parseTextFormat", "parseCSV", "parse"} THEN result
    ELSE <<>>

MagnitudesOf(records, radii) ==
    /\ Len(records) = Len(radii)
    /\ \A k \in 1..Len(records) : records[k].rTestplate = MathAbs(radii[k])

\* C6: every record of parseZmxFormat, parseTextFormat, parseCSV and parse has
\* a positive diameter and a positive testplate radius, the magnitude of the
\* source radius, and the empty placeholder as fringes
C6_PositiveMagnitudes ==
    /\ \A k \in 1..Len(Records) :
           /\ RGt(Records[k].diameter, Zero)
           /\ RGt(Records[k].rTestplate, Zero)
           /\ Records[k].fringes = <<>>
    /\ InZmx =>
           \A k \in 1..Len(surfaces) :
               /\ surfaces[k].rTestplate = MathAbs(EmittedBlocks[k].surface.radius)
               /\ surfaces[k].diameter = MathAbs(EmittedBlocks[k].surface.diameter)
    /\ call.op = "parseTextFormat"
           => MagnitudesOf(result, TextRadii(Split(call.args[1], "\n"), 1))
    /\ call.op = "parseCSV"
           => MagnitudesOf(result, CsvRadii(Split(call.args[1], "\n"), 2))

\* a record of a surface whose source radius is negative
C6_Witness ==
    /\ InZmx /\ pc = "done"
    /\ \E k \in 1..Len(result) : RLt(EmittedBlocks[k].surface.radius, Zero)

\* the label of the index tokens of GlasTails
LabelOfToken(token) ==
    CASE token = <<"1", ".", "5", "2">> -> <<"n", "=", "1", ".", "5", "2", "0", "0">>
      [] token = <<"1", ".", "7", "e", "0", "x">> -> <<"n", "=", "1", ".", "7", "0", "0", "0">>
      [] token = <<"1", ".", "0", "0", "0", "0", "6">> -> <<"n", "=", "1", ".", "0", "0", "0", "1">>
      [] OTHER -> null

\* the material of the GLAS line made of g
MaterialOfCase(g) ==
    IF g.material = <<"_", "_", "_", "B", "L", "A", "N", "K">>
    THEN (IF Len(g.tail) >= 3 THEN LabelOfToken(g.tail[3]) ELSE null)
    ELSE IF g.material \in {<<"_">>, <<"_", "_", "_">>} THEN null
    ELSE g.material

\* C7: extractMaterial returns the first token after GLAS unless it is
\* ___BLANK or only underscores; for ___BLANK it returns "n=" and the fourth
\* token after GLAS to 4 decimals when that is a number above 1.0, else null
C7_ExtractMaterial ==
    call.op = "extractMaterial" => result = MaterialOfCase(call.args[2])

\* GLAS ___BLANK 1 0 1.52 ... gives n=1.5200
C7_Witness ==
    /\ call.op = "extractMaterial" /\ pc = "done"
    /\ call.args[2].material = BLANK
    /\ Len(call.args[2].tail) > 3
    /\ result = <<"n", "=", "1", ".", "5", "2", "0", "0">>

\* C8: calculateActualRadius is 0 exactly when sag or diameter is 0; otherwise
\* it is negative for Concave and positive for any other type; the rActual of
\* calculateSurface is <= 0 for Concave and >= 0 for Convex
C8_ActualRadiusSign ==
    /\ call.op = "calculateActualRadius" =>
           /\ (result = DZero) <=> (call.args[3] = DZero \/ call.args[2] = DZero)
           /\ result # DZero =>
                  IF call.args[1] = "Concave" THEN DLt(result, DZero)
                  ELSE DGt(result, DZero)
    /\ call.op = "calculateSurface" =>
           /\ call.args[1] = "Concave" => ~DGt(result.rActual, DZero)
           /\ call.args[1] = "Convex" => ~DLt(result.rActual, DZero)

\* a Convex surface with a negative sag has a positive radius
C8_Witness ==
    /\ call.op = "calculateActualRadius" /\ pc = "done"
    /\ call.args[1] = "Convex"
    /\ DLt(call.args[3], DZero)
    /\ DGt(result, DZero)

InTestplateSag == call.op = "calculateTestplateSag"

HalfSquared(d) == DMul(DDiv(d, Two), DDiv(d, Two))

\* C9: calculateTestplateSag(r, d) is 0 when r = 0 or d = 0 or
\* r*r < (d/2)*(d/2)
C9_SagSentinel ==
    (/\ InTestplateSag
     /\ \/ call.args[1] = DZero
        \/ call.args[2] = DZero
        \/ DLt(DMul(call.args[1], call.args[1]), HalfSquared(call.args[2])))
        => result = DZero

\* a radius smaller than the half diameter
C9_Witness ==
    /\ InTestplateSag /\ pc = "done"
    /\ call.args[1] # DZero /\ call.args[2] # DZero
    /\ DLt(DMul(call.args[1], call.args[1]), HalfSquared(call.args[2]))
    /\ result = DZero

\* C10: calculateTestplateSag(r, d) >= 0 and it equals
\* calculateTestplateSag(-r, d)
C10_SagSignOfRadius ==
    InTestplateSag =>
        /\ ~DIsNaN(result)
        /\ ~DLt(result, DZero)
        /\ result = calculateTestplateSag(DNeg(call.args[1]), call.args[2])

\* a negative radius with a positive sag
C10_Witness ==
    /\ InTestplateSag /\ pc = "done"
    /\ DLt(call.args[1], DZero)
    /\ DGt(result, DZero)

InActualSag == call.op = "calculateActualSag"

\* C11: calculateActualSag returns testplateSag + fringeSag for Convex and
\* testplateSag - fringeSag for Concave; so with fringeSag >= 0 the result
\* is >= testplateSag for Convex and <= testplateSag for Concave
C11_ActualSag ==
    InActualSag =>
        /\ call.args[1] = "Convex" =>
               /\ result = DAdd(call.args[2], call.args[3])
               /\ DGe(call.args[3], DZero) => DGe(result, call.args[2])
        /\ call.args[1] = "Concave" =>
               /\ result = DSub(call.args[2], call.args[3])
               /\ DGe(call.args[3], DZero) => DLe(result, call.args[2])

\* a Concave surface with a positive fringe sag: the sag shrinks
C11_Witness ==
    /\ InActualSag /\ pc = "done"
    /\ call.args[1] = "Concave"
    /\ DGt(call.args[3], DZero)
    /\ DLt(result, call.args[2])

\* the decimal literal n / 10^k
Decimal(n, k) == DDiv(FromInt(n), FromInt(Pow10(k)))

\* x is v to the five decimals given
Near(x, v) == DLe(DAbs(DSub(x, v)), Decimal(1, 5))

\* calculateSurface('Convex', 30.0, 33.0, 5, 632.8)
IsSurfaceExample ==
    /\ call.op = "calculateSurface"
    /\ call.args = <<"Convex", FromInt(30), FromInt(33), FromInt(5), Decimal(6328, 1)>>

\* C12 as stated: the example yields sagTestplate ~ 3.47106, sagAdded =
\* 0.001582, sagActual = sagTestplate + sagAdded and a positive rActual
C12_Original ==
    IsSurfaceExample =>
        /\ Near(result.sagTestplate, Decimal(347106, 5))
        /\ result.sagAdded = Decimal(1582, 6)
        /\ result.sagActual = DAdd(result.sagTestplate, result.sagAdded)
        /\ DGt(result.rActual, DZero)

\* C12 amended: calculateSurface('Convex', 30.0, 33.0, 5, 632.8) yields
\* sagTestplate ~ 3.60612 mm, sagAdded = 0.001582 mm, sagActual =
\* sagTestplate + sagAdded and a positive rActual
C12_SurfaceExample ==
    IsSurfaceExample =>
        /\ Near(result.sagTestplate, Decimal(360612, 5))
        /\ result.sagAdded = Decimal(1582, 6)
        /\ result.sagActual = DAdd(result.sagTestplate, result.sagAdded)
        /\ DGt(result.rActual, DZero)

\* the example has been computed: its radius is a little under 33 mm
C12_Witness ==
    /\ IsSurfaceExample /\ pc = "done"
    /\ DGt(result.sagActual, result.sagTestplate)
    /\ DGt(result.rActual, FromInt(32))
    /\ DLt(result.rActual, FromInt(33))

InSurface == call.op = "calculateSurface"

\* C13: calculateSurface(type, d, r, n, w) returns the composition of the
\* four sub-functions: sagTestplate = calculateTestplateSag(r, d), sagAdded =
\* calculateFringeSag(n, w), sagActual = calculateActualSag(type,
\* sagTestplate, sagAdded), rActual = calculateActualRadius(type, d,
\* sagActual); inputs that validateInputs rejects get a result all the same
C13_Composition ==
    InSurface =>
        /\ DOMAIN result = {"sagTestplate", "sagAdded", "sagActual", "rActual"}
        /\ result.sagTestplate = calculateTestplateSag(call.args[3], call.args[2])
        /\ result.sagAdded = calculateFringeSag(call.args[4], call.args[5])
        /\ result.sagActual =
               calculateActualSag(call.args[1], result.sagTestplate, result.sagAdded)
        /\ result.rActual =
               calculateActualRadius(call.args[1], call.args[2], result.sagActual)

\* a NaN radius gives NaN values, not an error
C13_NaNWitness ==
    /\ InSurface /\ pc = "done"
    /\ DIsNaN(call.args[3])
    /\ DIsNaN(result.sagTestplate) /\ DIsNaN(result.rActual)

\* a diameter and a radius that validateInputs rejects, with fringes that
\* change the sag: the four values are computed all the same
C13_Witness ==
    /\ InSurface /\ pc = "done"
    /\ ~validateInputs(call.args[2], call.args[3]).valid
    /\ result.sagAdded # DZero
    /\ result.sagActual # result.sagTestplate
    /\ result.rActual # DZero

InFringeSag == call.op = "calculateFringeSag"

\* C14: calculateFringeSag(n, w) equals n * (w / 1000000) / 2 for every n,
\* negative and fractional counts included, and
\* calculateFringeSag(2n, w) = 2 * calculateFringeSag(n, w)
C14_FringeSagLinear ==
    InFringeSag =>
        /\ result = DDiv(DMul(call.args[1], DDiv(call.args[2], FromInt(1000000))), Two)
        /\ calculateFringeSag(DMul(Two, call.args[1]), call.args[2])
               = DMul(Two, result)

\* a negative fractional count with the wavelength 632.8 nm: a negative sag
C14_Witness ==
    /\ InFringeSag /\ pc = "done"
    /\ call.args[1] = DDiv(FromInt(-3), Two)
    /\ call.args[2] = DDiv(FromInt(6328), FromInt(10))
    /\ DLt(result, DZero)

InRadiusToCurvature == call.op = "radiusToCurvature"

InCurvatureToRadius == call.op = "curvatureToRadius"

\* the next double away from zero and the next one towards zero, for a
\* finite nonzero x
Outward(x) == Pack(x.s, WInc(Mant(x)), x.e)

Inward(x) ==
    IF x.hi = HalfLimb \div 2 /\ x.lo = 0
    THEN [s |-> x.s, hi |-> HalfLimb - 1, lo |-> Limb - 1, e |-> x.e - 1]
    ELSE Pack(x.s, WDec(Mant(x)), x.e)

\* z is x or a double next to x
Adjacent(z, x) ==
    \/ z = x
    \/ x.s \in {-1, 1} /\ z \in {Outward(x), Inward(x)}

\* C15 as stated: the two conversions are mutual inverses,
\* curvatureToRadius(radiusToCurvature(x)) = x and
\* radiusToCurvature(curvatureToRadius(x)) = x, with 0 mapped to 0 by both
C15_Original ==
    /\ InRadiusToCurvature =>
           /\ curvatureToRadius(result) = call.args[1]
           /\ call.args[1] = DZero => result = DZero
    /\ InCurvatureToRadius =>
           /\ radiusToCurvature(result) = call.args[1]
           /\ call.args[1] = DZero => result = DZero

\* C15 amended: the two conversions are mutual inverses up to rounding,
\* curvatureToRadius(radiusToCurvature(x)) and
\* radiusToCurvature(curvatureToRadius(x)) are x or a double next to x, with
\* 0 mapped to 0 by both
C15_InverseUpToRounding ==
    /\ InRadiusToCurvature =>
           /\ Adjacent(curvatureToRadius(result), call.args[1])
           /\ call.args[1] = DZero => result = DZero
    /\ InCurvatureToRadius =>
           /\ Adjacent(radiusToCurvature(result), call.args[1])
           /\ call.args[1] = DZero => result = DZero

\* the radius 49: the curvature 1/49 converts back to the double after 49
C15_Witness ==
    /\ InRadiusToCurvature /\ pc = "done"
    /\ call.args[1] = FromInt(49)
    /\ curvatureToRadius(result) = Outward(call.args[1])

InValidate == call.op = "validateInputs"

DiameterPositive == DGt(call.args[1], DZero)

RadiusLargeEnough == DGe(DAbs(call.args[2]), DDiv(call.args[1], Two))

C16_TooSmallWitness ==
    /\ InValidate /\ pc = "done"
    /\ ~result.valid /\ Len(result.errors) = 1
    /\ DiameterPositive
    /\ call.args[2] # DZero

InCsv == call.op = "parseCSV"

CsvFields(line) == Split(Trim(line), ",")

CsvRadius(line) == parseFloat(CsvFields(line)[1])

CsvDiameter(line) == parseFloat(CsvFields(line)[2])

\* the line is not blank, has two fields or more, and its first two fields
\* parse as numbers with radius # 0 and diameter > 0
CsvQualifies(line) ==
    /\ Trim(line) # <<>>
    /\ Len(CsvFields(line)) >= 2
    /\ ~isNaN(CsvRadius(line)) /\ ~isNaN(CsvDiameter(line))
    /\ CsvRadius(line) # Zero
    /\ RGt(CsvDiameter(line), Zero)

\* the indices of the lines after the first that qualify
CsvQualified(ls) == {k \in 2..Len(ls) : CsvQualifies(ls[k])}

\* the position in the output of the record of the qualifying line k
CsvRank(ls, k) == Cardinality({q \in CsvQualified(ls) : q <= k})

CsvRecordsOf(records, ls) ==
    /\ Len(records) = Cardinality(CsvQualified(ls))
    /\ \A k \in CsvQualified(ls) :
           /\ records[CsvRank(ls, k)].rTestplate = MathAbs(CsvRadius(ls[k]))
           /\ records[CsvRank(ls, k)].diameter = CsvDiameter(ls[k])
    /\ \A j \in 1..Len(records) : records[j].material = <<>>

\* C17: parseCSV skips the line at index 0, and each later line that is not
\* blank and has two fields or more gives one record iff its fields 0 and 1
\* parse as numbers with radius # 0 and diameter > 0 (other lines give
\* none); every record has an empty material
C17_ParseCSV ==
    InCsv => CsvRecordsOf(result, Split(call.args[1], "\n"))

\* a file whose first line would qualify and is skipped, with later rows
\* that give records and rows of two fields that give none
C17_Witness ==
    /\ InCsv /\ pc = "done"
    /\ CsvQualifies(Split(call.args[1], "\n")[1])
    /\ Len(result) >= 2
    /\ \E k \in 2..Len(Split(call.args[1], "\n")) :
           /\ Len(CsvFields(Split(call.args[1], "\n")[k])) >= 2
           /\ ~CsvQualifies(Split(call.args[1], "\n")[k])

InDetect == call.op = "detectFormat"

HasSurf == Includes(call.args[1], <<"S", "U", "R", "F">>)

HasCurv == Includes(call.args[1], <<"C", "U", "R", "V">>)

HasRadius == Includes(call.args[1], <<"R", "A", "D", "I", "U", "S">>)

HasComma == Includes(call.args[1], <<",">>)

\* C18: detectFormat returns 'zmx' iff the content contains 'SURF' and
\* contains 'CURV' or 'RADIUS'; otherwise 'csv' iff it contains a comma;
\* otherwise 'text'
C18_DetectFormat ==
    InDetect =>
        /\ result = "zmx" <=> (HasSurf /\ (HasCurv \/ HasRadius))
        /\ result = "csv" <=> (~(HasSurf /\ (HasCurv \/ HasRadius)) /\ HasComma)
        /\ result = "text" <=> (~(HasSurf /\ (HasCurv \/ HasRadius)) /\ ~HasComma)

\* 'SURF' and 'RADIUS' with commas and no 'CURV': 'zmx' has the priority
C18_Witness ==
    /\ InDetect /\ pc = "done"
    /\ HasSurf /\ HasRadius /\ ~HasCurv /\ HasComma
    /\ result = "zmx"

\* 'SURF' and a comma with neither 'CURV' nor 'RADIUS': 'csv'
C18_CsvWitness ==
    /\ InDetect /\ pc = "done"
    /\ HasSurf /\ ~HasRadius /\ ~HasCurv /\ HasComma
    /\ result = "csv"

\* 'CURV' without 'SURF' and without a comma: 'text'
C18_TextWitness ==
    /\ InDetect /\ pc = "done"
    /\ ~HasSurf /\ HasCurv /\ ~HasComma
    /\ result = "text"

\* the calls j and k of the session have the same function and arguments
SameCall(j, k) ==
    /\ earlier[j].op = earlier[k].op
    /\ earlier[j].args = earlier[k].args

\* C19: the functions keep no state between calls: in any sequence of
\* calls, two calls with equal arguments return equal results, whatever was
\* called before or in between
C19_Stateless ==
    \A j \in 1..Len(earlier), k \in 1..Len(earlier) :
        SameCall(j, k) => earlier[j].result = earlier[k].result

\* a file parsed, another call made, and the same file parsed again: the
\* same records, although the locals of the calls in between were left over
C19_Witness ==
    /\ Len(earlier) = 3
    /\ earlier[1].op = "parseZmxFormat" /\ SameCall(1, 3)
    /\ ~SameCall(1, 2)
    /\ Len(earlier[1].result) > 1
    /\ earlier[3].result = earlier[1].result
    /\ pc = "done" /\ surfaces = earlier[3].result

\* a surface computed before and after a file was parsed
C19_SurfaceWitness ==
    /\ Len(earlier) = 3
    /\ earlier[1].op = "calculateSurface" /\ SameCall(1, 3)
    /\ earlier[2].op = "parseZmxFormat" /\ earlier[2].result # <<>>
    /\ earlier[3].result = earlier[1].result

InText == call.op = "parseTextFormat"

TextTokens(line) == SplitWs(Trim(line))

\* the line is not blank, does not start with '#' or '//', has three tokens
\* or more, and its tokens 1 and 2 parse as numbers with radius # 0 and
\* diameter > 0
TextQualifies(line) ==
    /\ Trim(line) # <<>>
    /\ ~StartsWith(Trim(line), <<"#">>)
    /\ ~StartsWith(Trim(line), <<"/", "/">>)
    /\ Len(TextTokens(line)) >= 3
    /\ ~isNaN(parseFloat(TextTokens(line)[2]))
    /\ ~isNaN(parseFloat(TextTokens(line)[3]))
    /\ parseFloat(TextTokens(line)[2]) # Zero
    /\ RGt(parseFloat(TextTokens(line)[3]), Zero)

TextQualified(ls) == {k \in 1..Len(ls) : TextQualifies(ls[k])}

\* the position in the output of the record of the qualifying line k
TextRank(ls, k) == Cardinality({q \in TextQualified(ls) : q <= k})

\* lines that contribute nothing: blank, comments, two tokens, no number, a
\* zero radius, a negative diameter
MalformedLines ==
    {<<>>,
     <<"#", " ", "1", " ", "2", " ", "3">>,
     <<"/", "/", "1", " ", "2", " ", "3">>,
     <<"S", "1", " ", "5">>,
     <<"S", "1", " ", "x", " ", "5">>,
     <<"S", "1", " ", "0", " ", "5">>,
     <<"S", "1", " ", "5", " ", "-", "2">>}

Without(records, j) == SubSeq(records, 1, j - 1) \o SubSeq(records, j + 1, Len(records))

\* the records are the contributions of the lines, in order
TextRecordsOf(records, ls) ==
    /\ Len(records) = Cardinality(TextQualified(ls))
    /\ \A k \in 1..Len(ls) :
           IF TextQualifies(ls[k])
           THEN parseTextFormat(ls[k]) = <<records[TextRank(ls, k)]>>
           ELSE parseTextFormat(ls[k]) = <<>>

\* with one qualifying line replaced by a malformed one, the other records
TextReplaced(records, ls) ==
    \A k \in TextQualified(ls), bad \in MalformedLines :
        parseTextFormat(Join([ls EXCEPT ![k] = bad], <<"\n">>))
            = Without(records, TextRank(ls, k))

\* C20: parseTextFormat treats every line on its own: the output is the
\* concatenation in order of what each line contributes, one record iff
\* the line is not blank, does not start with '#' or '//', has three tokens
\* or more and tokens 1 and 2 parse as numbers with radius # 0 and
\* diameter > 0; so replacing one valid line of a file of K records by a
\* malformed line gives the other K - 1 records, unchanged and in order
C20_TextLines ==
    InText =>
        /\ TextRecordsOf(result, Split(call.args[1], "\n"))
        /\ TextReplaced(result, Split(call.args[1], "\n"))

\* a file of three records or more with a malformed line before a valid one
C20_Witness ==
    /\ InText /\ pc = "done"
    /\ Len(result) >= 3
    /\ \E k \in 1..Len(Split(call.args[1], "\n")) :
           /\ Len(TextTokens(Split(call.args[1], "\n")[k])) >= 3
           /\ ~StartsWith(Trim(Split(call.args[1], "\n")[k]), <<"#">>)
           /\ ~TextQualifies(Split(call.args[1], "\n")[k])
           /\ k < Len(Split(call.args[1], "\n"))
           /\ TextQualifies(Split(call.args[1], "\n")[k + 1])


\* a flushed block whose index lies strictly between the first and the last
\* and whose accumulated radius is nonzero and diameter positive
BlockQualifies(b) ==
    /\ 0 < b.surface.number /\ b.surface.number < totalSurfaces - 1
    /\ b.surface.radius # Zero
    /\ RGt(b.surface.diameter, Zero)

QualifiedBlocks == SelectSeq(blocks, BlockQualifies)

\* C21: parseZmxFormat emits one record for block i iff 0 < i < N-1 and the
\* block's accumulated radius is nonzero and its diameter positive, and
\* nothing else; the records come in increasing block index
C21_EmittedBlocks ==
    InZmx =>
        /\ \A k \in 1..Len(blocks) :
               /\ blocks[k].surface.number = k - 1
               /\ blocks[k].emitted <=> BlockQualifies(blocks[k])
        /\ Len(surfaces) = Len(QualifiedBlocks)
        /\ \A k \in 1..Len(surfaces) :
               surfaces[k] = formatSurface(QualifiedBlocks[k].surface)
        /\ \A j, k \in 1..Len(QualifiedBlocks) :
               j < k => QualifiedBlocks[j].surface.number
                            < QualifiedBlocks[k].surface.number
        /\ pc = "done" => result = surfaces /\ Len(blocks) = totalSurfaces

\* a completed call on a file whose records come from blocks 1, 3 and 5, with
\* blocks in between that give none
C21_Witness ==
    /\ InZmx /\ pc = "done"
    /\ Len(result) = 3
    /\ Len(blocks) = 7
    /\ \A k \in {2, 4, 6} : blocks[k].emitted
    /\ \A k \in {1, 3, 5, 7} : ~blocks[k].emitted
    /\ ~isValidSurface(blocks[3].surface)
    /\ ~isValidSurface(blocks[5].surface)


\* C22: at every point of the scan of parseZmxFormat the accumulator has
\* radius 0 when its curvature is 0 and radius 1/curvature otherwise, and a
\* block whose curvature is 0 is never emitted
C22_CurvatureRadius ==
    InZmx =>
        /\ currentSurface # <<>> =>
               /\ currentSurface[1].curvature = Zero
                      => currentSurface[1].radius = Zero
               /\ currentSurface[1].curvature # Zero
                      => currentSurface[1].radius
                             = RDiv(Num(1), currentSurface[1].curvature)
        /\ \A k \in 1..Len(blocks) :
               blocks[k].surface.curvature = Zero => ~blocks[k].emitted


\* the index of the block the k-th line belongs to: the number of surface
\* boundary lines up to it, less one
BlockOf(ls, k) ==
    Cardinality({j \in 1..k : StartsWith(Trim(ls[j]), SURF_)}) - 1

\* the DIAM lines of block n among the first upto lines
DiamLines(ls, n, upto) ==
    {k \in 1..upto : BlockOf(ls, k) = n /\ StartsWith(Trim(ls[k]), DIAM_)}

IsPositiveNumber(v) == v # nullNumber /\ RGt(v, Zero)

\* those that carry a strictly positive number
PositiveDiamLines(ls, n, upto) ==
    {k \in DiamLines(ls, n, upto) : IsPositiveNumber(extractNumber(Trim(ls[k])))}

MaxOf(S) == CHOOSE k \in S : \A j \in S : j <= k

\* twice the last strictly positive semi-diameter, or 0 if there is none
LastDiameter(ls, n, upto) ==
    IF PositiveDiamLines(ls, n, upto) = {} THEN Zero
    ELSE RMul(extractNumber(Trim(ls[MaxOf(PositiveDiamLines(ls, n, upto))])),
              Num(2))

DiameterInvariant ==
    InZmx =>
        /\ currentSurface # <<>> =>
               currentSurface[1].diameter
                   = LastDiameter(lines, surfaceNumber, i - 1)
        /\ \A k \in 1..Len(blocks) :
               blocks[k].surface.diameter
                   = LastDiameter(lines, blocks[k].surface.number, Len(lines))
        /\ Len(surfaces) = Len(EmittedBlocks)
        /\ \A k \in 1..Len(surfaces) :
               surfaces[k].diameter
                   = LastDiameter(lines, EmittedBlocks[k].surface.number,
                                  Len(lines))

\* the iteration of the second pass over a DIAM line inside a block
DiamStep ==
    /\ pc = "scan" /\ pc' = "scan" /\ i' = i + 1
    /\ currentSurface # <<>>
    /\ StartsWith(Trim(lines[i]), DIAM_)

\* C23: a DIAM line sets the diameter to twice its extracted value only when
\* that value is strictly positive and otherwise leaves the accumulator
\* unchanged; it never changes another field; the emitted diameter is twice
\* the last strictly positive semi-diameter of the block
C23_DiamLines ==
    /\ []DiameterInvariant
    /\ [][DiamStep =>
            /\ Len(currentSurface') = 1
            /\ \A f \in {"number", "radius", "curvature", "material"} :
                   currentSurface'[1][f] = currentSurface[1][f]
            /\ currentSurface'[1].diameter
                   = IF IsPositiveNumber(extractNumber(Trim(lines[i])))
                     THEN RMul(extractNumber(Trim(lines[i])), Num(2))
                     ELSE currentSurface[1].diameter
            /\ surfaces' = surfaces /\ surfaceNumber' = surfaceNumber]_vars

\* a completed call with an emitted block whose last DIAM line carries no
\* positive number and follows one that does
C23_Witness ==
    /\ InZmx /\ pc = "done"
    /\ \E k \in 1..Len(blocks) :
           /\ blocks[k].emitted
           /\ PositiveDiamLines(lines, k - 1, Len(lines)) # {}
           /\ MaxOf(DiamLines(lines, k - 1, Len(lines)))
                  > MaxOf(PositiveDiamLines(lines, k - 1, Len(lines)))

\* a block with DIAM lines of which none carries a positive number
C23_NoDiameterWitness ==
    /\ InZmx /\ pc = "done"
    /\ \E k \in 1..Len(blocks) :
           /\ DiamLines(lines, k - 1, Len(lines)) # {}
           /\ PositiveDiamLines(lines, k - 1, Len(lines)) = {}
           /\ blocks[k].surface.radius # Zero
           /\ 1 < k /\ k < totalSurfaces
           /\ ~blocks[k].emitted


\* the surface boundary lines of a file
BoundaryLines(ls) == {k \in 1..Len(ls) : StartsWith(Trim(ls[k]), SURF_)}

MinOf(S) == CHOOSE k \in S : \A j \in S : k <= j

\* the file without the lines ahead of its first surface boundary line
FromFirstBoundary(ls) ==
    IF BoundaryLines(ls) = {} THEN <<>>
    ELSE SubSeq(ls, MinOf(BoundaryLines(ls)), Len(ls))

\* C24: the index of a block is the number of surface boundary lines that
\* precede it, whatever number its SURF line carries, and the field lines
\* ahead of the first boundary line have no effect on the output
C24_BlockIndex ==
    InZmx =>
        /\ surfaceNumber = BlockOf(lines, i - 1)
        /\ (currentSurface = <<>>) <=> (surfaceNumber = -1)
        /\ currentSurface # <<>> => currentSurface[1].number = surfaceNumber
        /\ surfaceNumber = -1 => surfaces = <<>> /\ blocks = <<>>
        /\ \A k \in 1..Len(blocks) : blocks[k].surface.number = k - 1
        /\ Len(blocks) \in {Max0(surfaceNumber), surfaceNumber + 1}
        /\ pc = "done" => result = ParseZmxLines(FromFirstBoundary(lines))

\* a completed call on a file that starts with CURV, DIAM and GLAS lines and
\* whose SURF lines carry numbers other than the indices of their blocks
C24_Witness ==
    /\ InZmx /\ pc = "done"
    /\ Len(result) >= 2
    /\ BoundaryLines(lines) # {}
    /\ \E c, d, g \in 1..(MinOf(BoundaryLines(lines)) - 1) :
           /\ StartsWith(Trim(lines[c]), CURV_)
           /\ StartsWith(Trim(lines[d]), DIAM_)
           /\ StartsWith(Trim(lines[g]), GLAS_)
    /\ \E k \in BoundaryLines(lines) :
           /\ extractNumber(Trim(lines[k])) # Num(BlockOf(lines, k))
           /\ blocks[BlockOf(lines, k) + 1].emitted


\* C25: whenever detectFormat(content) is not 'zmx', parseZmxFormat(content)
\* returns the empty sequence
C25_DetectAgreesWithZmx ==
    /\ InZmx /\ detectFormat(call.args[1]) # "zmx"
           => surfaces = <<>> /\ result = <<>>
    /\ InDetect /\ result # "zmx"
           => parseZmxFormat(call.args[1]) = <<>>

\* a completed call of parseZmxFormat on a file that detectFormat does not
\* take for a Zemax file although a block of it has a diameter and a glass
C25_Witness ==
    /\ InZmx /\ pc = "done"
    /\ detectFormat(call.args[1]) = "text"
    /\ totalSurfaces >= 3
    /\ \E k \in 2..(Len(blocks) - 1) :
           /\ RGt(blocks[k].surface.diameter, Zero)
           /\ blocks[k].surface.material # null

\* a call of detectFormat on a file with surface blocks and no CURV line
C25_DetectWitness ==
    /\ InDetect /\ pc = "done"
    /\ result = "text"
    /\ CountSurfaces(Split(call.args[1], "\n")) >= 3


\* C26: whenever validateInputs(d, r) reports valid,
\* calculateTestplateSag(r, d) is strictly positive
C26_ValidImpliesPositiveSag ==
    /\ InValidate /\ result.valid
           => DGt(calculateTestplateSag(call.args[2], call.args[1]), DZero)
    /\ InTestplateSag /\ validateInputs(call.args[2], call.args[1]).valid
           => DGt(result, DZero)


\* C30: the flush after the last line never appends a record: the final
\* accumulator has index N-1, so the output is made by the flushes at the
\* surface boundary lines alone
C30_LastFlushEmpty ==
    /\ InZmx /\ pc = "scan" /\ i > Len(lines)
           => /\ surfaceNumber = totalSurfaces - 1
              /\ currentSurface # <<>>
                     => currentSurface[1].number = totalSurfaces - 1
              /\ Flush(currentSurface, surfaces, totalSurfaces) = surfaces
    /\ InZmx /\ pc = "done"
           => /\ blocks # <<>> => ~blocks[Len(blocks)].emitted
              /\ Len(surfaces)
                     = Len(SelectSeq(SubSeq(blocks, 1, Len(blocks) - 1),
                                     LAMBDA b : b.emitted))

\* the second pass has read every line of a file of at least three blocks,
\* it has pushed a record, and the last accumulator holds valid data
C30_Witness ==
    /\ InZmx /\ pc = "scan" /\ i > Len(lines)
    /\ totalSurfaces >= 3
    /\ surfaces # <<>>
    /\ currentSurface # <<>>
    /\ isValidSurface(currentSurface[1])


\* no createTab, deleteTab or deleteMultiple is at an await
NoOperation == \A k \in 1..Len(invocations) : invocations[k].op = "none"

\* C27: after init, whenever no operation of the TabManager is in progress,
\* tabs is not empty and activeTabId is the id of one of its tabs, and no
\* operation dereferences a missing tab
C27_OneTableRemains ==
    /\ ~thrown
    /\ started /\ NoOperation => tabs # <<>> /\ SeqHas(tabs, activeTabId)


\* no invocation is held by the main process and no autosave timer is set
Settled == invocations = <<>> /\ autosaveTimeout = 0

\* C28: once the operations have settled, the tables directory holds no file
\* of an id that is absent from tabs: a deleted tab stays deleted
C28_DeletedStaysDeleted ==
    started /\ Settled =>
        \A tabId \in TabIds : files[tabId] # -1 => SeqHas(tabs, tabId)


\* C29: every edit that saveCurrentTab records into a tab is eventually
\* written to the file of that tab, given that timers fire and invocations
\* are answered (no tab is deleted in AutosaveSpec)
C29_NoEditLost ==
    \A tabId \in TabIds :
        (SeqHas(tabs, tabId) /\ files[tabId] # tabSurfaces[tabId])
            ~> (files[tabId] = tabSurfaces[tabId])

====
